---- MODULE Spec2Model ----
(***************************************************************************)
(* Munin dashboard: the bank-verification-gated token-minting flow.        *)
(*                                                                         *)
(*   SpecWizard  the token wizard of one browser tab (TokenCreationForm,   *)
(*               FixedPlaidIntegration, createSPLToken, TokenCreator)      *)
(*   SpecServer  the Express routes and the Plaid service working on the   *)
(*               plaid_items and stablecoin_mints tables                   *)
(*                                                                         *)
(* Numbers are fixed-point integers: a JavaScript number n is the integer  *)
(* n * Scale.  NaN and an absent (null / undefined) value are the two      *)
(* negative integers below; every number of the program here is >= 0.      *)
(* Strings the code parses are sequences of one-character strings.         *)
(* A nullable object is a sequence: <<>> for null, <<x>> for x.            *)
(***************************************************************************)
EXTENDS Integers, Sequences, FiniteSets, TLC

\* ------------------------------------------------------------------------
\* Bounds of the model
\* ------------------------------------------------------------------------
\* longest supply string the user types
MaxSupplyLen == 2
\* number of HTTP requests the server receives in one behaviour
MaxRequests == 3

\* ------------------------------------------------------------------------
\* Numbers and strings
\* ------------------------------------------------------------------------
NaN == 0 - 1
Absent == 0 - 2

RECURSIVE Pow10(_)
Pow10(n) == IF n <= 0 THEN 1 ELSE 10 * Pow10(n - 1)

\* fractional digits the numbers of the model carry: those a typed supply
\* string can carry (one character is the dot), and at least one more than the
\* two of the decimal(12, 2) columns
FracDigits == IF MaxSupplyLen - 1 > 3 THEN MaxSupplyLen - 1 ELSE 3
Scale == Pow10(FracDigits)

Digits == {"0", "1", "2", "3", "4", "5", "6", "7", "8", "9"}

DigitValue(c) ==
    CASE c = "0" -> 0 [] c = "1" -> 1 [] c = "2" -> 2 [] c = "3" -> 3
      [] c = "4" -> 4 [] c = "5" -> 5 [] c = "6" -> 6 [] c = "7" -> 7
      [] c = "8" -> 8 [] c = "9" -> 9

DigitChar(d) ==
    CASE d = 0 -> "0" [] d = 1 -> "1" [] d = 2 -> "2" [] d = 3 -> "3"
      [] d = 4 -> "4" [] d = 5 -> "5" [] d = 6 -> "6" [] d = 7 -> "7"
      [] d = 8 -> "8" [] d = 9 -> "9"

\* characters the user types into the supply field
SupplyChars == {"5", "0", ",", "."}

RECURSIVE StringsUpTo(_)
StringsUpTo(n) ==
    IF n = 0 THEN {<<>>}
    ELSE LET shorter == StringsUpTo(n - 1)
         IN  shorter \cup {Append(s, c) : s \in shorter, c \in SupplyChars}

SupplyStrings == StringsUpTo(MaxSupplyLen)

RECURSIVE IntOfDigits(_)
IntOfDigits(ds) ==
    IF ds = <<>> THEN 0
    ELSE 10 * IntOfDigits(SubSeq(ds, 1, Len(ds) - 1)) + DigitValue(ds[Len(ds)])

\* index of the last character of the longest prefix of s, read from i, that
\* is made of digits and at most one dot (StrDecimalLiteral without sign and
\* exponent)
RECURSIVE NumericPrefixEnd(_, _, _)
NumericPrefixEnd(s, i, seenDot) ==
    IF i > Len(s) THEN i - 1
    ELSE IF s[i] \in Digits THEN NumericPrefixEnd(s, i + 1, seenDot)
    ELSE IF s[i] = "." /\ ~seenDot THEN NumericPrefixEnd(s, i + 1, TRUE)
    ELSE i - 1

DotIndex(t) ==
    IF \E i \in 1..Len(t) : t[i] = "."
    THEN CHOOSE i \in 1..Len(t) : t[i] = "."
    ELSE 0

\* value of a string of digits with at most one dot; NaN when it has no digit
DecimalValue(t) ==
    LET dot  == DotIndex(t)
        whole == IF dot = 0 THEN t ELSE SubSeq(t, 1, dot - 1)
        frac0 == IF dot = 0 THEN <<>> ELSE SubSeq(t, dot + 1, Len(t))
        frac  == IF Len(frac0) > FracDigits THEN SubSeq(frac0, 1, FracDigits) ELSE frac0
    IN  IF Len(whole) + Len(frac0) = 0 THEN NaN
        ELSE IntOfDigits(whole) * Scale + IntOfDigits(frac) * Pow10(FracDigits - Len(frac))

\* parseFloat(s): the longest numeric prefix, NaN when there is none
ParseFloat(s) == DecimalValue(SubSeq(s, 1, NumericPrefixEnd(s, 1, FALSE)))

\* Number(s): the whole string must be a numeric literal; "" is 0
ToNumber(s) ==
    IF s = <<>> THEN 0
    ELSE IF NumericPrefixEnd(s, 1, FALSE) = Len(s) THEN DecimalValue(s)
    ELSE NaN

\* s.replace(/,/g, '')
RemoveCommas(s) == SelectSeq(s, LAMBDA c : c # ",")

RECURSIVE DigitsOfInt(_)
DigitsOfInt(n) ==
    IF n < 10 THEN <<DigitChar(n)>>
    ELSE Append(DigitsOfInt(n \div 10), DigitChar(n % 10))

RECURSIVE FracDigitsOf(_, _)
\* the digits of the fraction f (0 <= f < 10^width), trailing zeros dropped
FracDigitsOf(f, width) ==
    IF f = 0 \/ width = 0 THEN <<>>
    ELSE <<DigitChar(f \div Pow10(width - 1))>>
         \o FracDigitsOf(f % Pow10(width - 1), width - 1)

\* Number.prototype.toString() of a finite number >= 0
NumberToString(v) ==
    LET f == v % Scale
    IN  IF f = 0 THEN DigitsOfInt(v \div Scale)
        ELSE DigitsOfInt(v \div Scale) \o <<".">> \o FracDigitsOf(f, FracDigits)

\* JavaScript comparison of numbers: false as soon as one side is NaN
JsGreater(a, b) == a # NaN /\ b # NaN /\ a > b
JsLessEq(a, b) == a # NaN /\ b # NaN /\ a <= b

\* ------------------------------------------------------------------------
\* Sample values of the free-text inputs
\* ------------------------------------------------------------------------
PayerAddress == "PayerWa11etAddressPayerWa11etAddress"
OtherAddress == "OtherWa11etAddressOtherWa11etAddress"
MalformedAddress == "not-an-address"
\* a key that is no point of the ed25519 curve (a program-derived address)
OffCurveAddress == "ProgramDerivedAddressProgramDerived1"
\* strings that new PublicKey() accepts
PublicKeyStrings == {PayerAddress, OtherAddress, OffCurveAddress}
RecipientSamples == {"", PayerAddress, OtherAddress, MalformedAddress,
                     OffCurveAddress}
TokenNameSamples == {"", "Munin Dollar"}
TokenSymbolSamples == {"", "MUSD"}
\* the options of the decimal-precision select
DecimalOptions == {<<"6">>, <<"9">>, <<"8">>, <<"1", "8">>, <<"0">>}
MintAuthorityOptions == {"keep", "transfer"}
DefaultSupply == <<"1", "0", "0", "0", "0", "0", "0">>
\* values an <input type="number"> hands to its onChange: "" or a valid
\* floating-point number string
NumberInputValues ==
    {s \in SupplyStrings :
        \/ s = <<>>
        \/ /\ \A i \in 1..Len(s) : s[i] # ","
           /\ ToNumber(s) # NaN
           /\ s[Len(s)] # "."}

\* ------------------------------------------------------------------------
\* Plaid answers and the bank snapshot derived from them (server side)
\* ------------------------------------------------------------------------
SandboxFallbackBalance == 1000
ForcedFallbackBalance == 5000

\* what the aggregator answers for one public token: the item, whether the
\* institution lookup worked, and the balances (available, current) of the
\* selected account, each possibly absent
PlaidAnswers ==
    { [item |-> "item-1", institution |-> "Chase", available |-> 50 * Scale,
       current |-> 50 * Scale],
      [item |-> "item-2", institution |-> "Sandbox Bank", available |-> 0,
       current |-> 5 * Scale],
      [item |-> "item-1", institution |-> "Chase", available |-> Absent,
       current |-> Absent] }

\* exchangePublicToken: the snapshot it returns (responseData)
ExchangeResult(answer) ==
    [ itemId |-> answer.item,
      accessToken |-> <<"access", answer.item>>,
      institutionName |-> IF answer.institution = "" THEN "Your Bank"
                          ELSE answer.institution,
      accountName |-> "Plaid Checking",
      accountMask |-> "0000",
      currentBalance |-> IF answer.current # Absent THEN answer.current
                         ELSE SandboxFallbackBalance * Scale,
      availableBalance |->
          IF answer.available # Absent THEN answer.available
          ELSE IF answer.current # Absent THEN answer.current
          ELSE SandboxFallbackBalance * Scale ]

\* POST /api/plaid/exchange-token: the 200 body built from the result
ExchangeTokenResponse(result) ==
    [ success |-> TRUE,
      bankAccount |->
        <<[ institutionName |-> IF result.institutionName = "" THEN "Your Bank"
                                ELSE result.institutionName,
            accountName |-> IF result.accountName = "" THEN "Bank Account"
                            ELSE result.accountName,
            accountMask |-> IF result.accountMask = "" THEN "0000"
                            ELSE result.accountMask,
            currentBalance |-> IF result.currentBalance = NaN
                               THEN SandboxFallbackBalance * Scale
                               ELSE result.currentBalance,
            availableBalance |-> IF result.availableBalance = NaN
                                 THEN SandboxFallbackBalance * Scale
                                 ELSE result.availableBalance ]>> ]

\* POST /api/plaid/exchange-token: the 500 body
ExchangeTokenFailure == [success |-> FALSE, bankAccount |-> <<>>]

\* ------------------------------------------------------------------------
\* State
\* ------------------------------------------------------------------------
VARIABLES
    \* useSolanaWallet(): <<>> or <<address>> of the connected wallet
    publicKey,
    \* TokenCreationForm
    currentStep, verifiedBankAccount, form,
    \* TokenCreator: loading overlay, success screen
    isLoading, tokenCreated,
    \* title of the toast the latest handler raised, "" when it raised none
    toast,
    \* FixedPlaidIntegration (mounted while currentStep = 3)
    plaid,
    \* the createSPLToken call of onSubmit that is in progress
    mint,
    \* server: tables plaid_items and stablecoin_mints, requests being handled
    plaidItems, stablecoinMints, requests,
    \* SolanaWalletProvider: <<>> or <<"phantom">>, and its other state
    wallet, connected, connecting, connectionError,
    \* window.solana: the key and the calls of the provider it has not answered
    phantom,
    \* the operation or wallet event of the provider that completed last
    lastWalletOp

wizardVars == <<publicKey, currentStep, verifiedBankAccount, form, isLoading,
                tokenCreated, toast, plaid, mint>>
serverVars == <<plaidItems, stablecoinMints, requests>>
walletVars == <<wallet, connected, connecting, connectionError, phantom,
                lastWalletOp>>
vars == <<publicKey, currentStep, verifiedBankAccount, form, isLoading,
          tokenCreated, toast, plaid, mint, plaidItems, stablecoinMints, requests,
          wallet, connected, connecting, connectionError, phantom, lastWalletOp>>

\* ------------------------------------------------------------------------
\* tokenUtils: form validation
\* ------------------------------------------------------------------------
validateTokenName(name) ==
    IF name = "" THEN "Token name is required"
    ELSE IF Len(name) > 50 THEN "Token name must be less than 50 characters"
    ELSE ""

validateTokenSymbol(symbol) ==
    IF symbol = "" THEN "Token symbol is required"
    ELSE IF Len(symbol) > 10 THEN "Token symbol must be less than 10 characters"
    ELSE IF symbol \notin TokenSymbolSamples
        THEN "Token symbol must contain only uppercase letters and numbers"
    ELSE ""

\* Number.MAX_SAFE_INTEGER is 2^53 - 1; every number of the model is below 2^31
ExceedsMaxSafeInteger(num) == FALSE

validateTokenSupply(supply) ==
    IF supply = <<>> THEN "Token supply is required"
    ELSE LET num == ToNumber(RemoveCommas(supply))
         IN  IF num = NaN THEN "Supply must be a valid number"
             ELSE IF num <= 0 THEN "Supply must be greater than 0"
             ELSE IF ExceedsMaxSafeInteger(num) THEN "Supply is too high"
             ELSE ""

validateRecipientAddress(address) ==
    IF address = "" THEN ""
    ELSE IF ~(Len(address) >= 32 /\ Len(address) <= 44 /\ address # MalformedAddress)
        THEN "Invalid Solana address format"
    ELSE ""

\* ------------------------------------------------------------------------
\* TokenCreationForm: the supply gate
\* ------------------------------------------------------------------------
\* variant: the gate reads the current instead of the available balance
SupplyExceedsCurrentBalance(supply, bank) ==
    JsGreater(ParseFloat(supply), bank.currentBalance)

\* parseFloat(tokenSupply) > verifiedBankAccount.availableBalance
SupplyExceedsBalance(supply, bank) ==
    JsGreater(ParseFloat(supply), bank.availableBalance)

\* validateStep(step): whether the step is valid, the toast it raises and the
\* step it sets (0: it sets none)
validateStep(step) ==
    CASE step = 1 ->
           [isValid |-> validateTokenName(form.tokenName) = ""
                        /\ validateTokenSymbol(form.tokenSymbol) = "",
            toast |-> "", setStep |-> 0]
      [] step = 2 ->
           [isValid |-> validateTokenSupply(form.tokenSupply) = "",
            toast |-> "", setStep |-> 0]
      [] step = 3 ->
           IF verifiedBankAccount = <<>>
           THEN [isValid |-> FALSE, toast |-> "Bank Verification Required",
                 setStep |-> 0]
           ELSE IF SupplyExceedsBalance(form.tokenSupply, verifiedBankAccount[1])
           THEN [isValid |-> FALSE, toast |-> "Supply Exceeds Balance",
                 setStep |-> 2]
           ELSE [isValid |-> TRUE, toast |-> "", setStep |-> 0]
      [] step = 4 ->
           [isValid |-> validateRecipientAddress(form.recipientAddress) = "",
            toast |-> "", setStep |-> 0]
      [] OTHER -> [isValid |-> TRUE, toast |-> "", setStep |-> 0]

\* the disabled attribute of the Create Token button
CreateTokenDisabled ==
    /\ verifiedBankAccount # <<>>
    /\ SupplyExceedsBalance(form.tokenSupply, verifiedBankAccount[1])

\* ------------------------------------------------------------------------
\* FixedPlaidIntegration
\* ------------------------------------------------------------------------
PlaidUnmounted ==
    [ mounted |-> FALSE, token |-> "", loading |-> FALSE, error |-> "",
      fallbackMode |-> FALSE, success |-> FALSE, awaiting |-> "none",
      pending |-> <<>>, via |-> "" ]

\* the effect on [publicKey]: without a wallet key it reports the error, with
\* one it requests a link token
RunLinkTokenEffect(p, key) ==
    IF key = <<>>
    THEN [p EXCEPT !.loading = FALSE,
                   !.error = "Please connect your wallet to continue."]
    ELSE [p EXCEPT !.loading = TRUE, !.awaiting = "link-token"]

\* mounting: the useState initial values, then the effect
MountPlaid(key) ==
    RunLinkTokenEffect([PlaidUnmounted EXCEPT !.mounted = TRUE, !.loading = TRUE], key)

\* which of the component's five screens is rendered
PlaidView ==
    IF ~plaid.mounted THEN "none"
    ELSE IF plaid.success THEN "success"
    ELSE IF plaid.loading THEN "loading"
    ELSE IF plaid.error # "" /\ plaid.fallbackMode THEN "fallback"
    ELSE IF plaid.error # "" THEN "error"
    ELSE "main"

\* the plaid component after the wizard moved from step `from` to step `to`
PlaidAfterStep(from, to) ==
    IF to = 3 THEN (IF from = 3 THEN plaid ELSE MountPlaid(publicKey))
    ELSE PlaidUnmounted

FallbackBankAccount ==
    [ institutionName |-> "Bank of America", accountName |-> "Checking Account",
      accountMask |-> "1234", currentBalance |-> ForcedFallbackBalance * Scale,
      availableBalance |-> ForcedFallbackBalance * Scale ]

\* handleSuccess: the BankAccount read from the response body
ClientBankAccount(b) ==
    [ institutionName |-> IF b.institutionName = "" THEN "Your Bank"
                          ELSE b.institutionName,
      accountName |-> IF b.accountName = "" THEN "Bank Account" ELSE b.accountName,
      accountMask |-> IF b.accountMask = "" THEN "0000" ELSE b.accountMask,
      currentBalance |-> IF b.currentBalance = NaN THEN 0 ELSE b.currentBalance,
      availableBalance |-> IF b.availableBalance = NaN THEN 0
                           ELSE b.availableBalance ]

\* the bodies /api/plaid/exchange-token can answer the wizard with
ExchangeResponses ==
    {ExchangeTokenResponse(ExchangeResult(a)) : a \in PlaidAnswers}
        \cup {ExchangeTokenFailure}

\* ------------------------------------------------------------------------
\* createSPLToken: the transaction it builds
\* ------------------------------------------------------------------------
\* Keypair.generate(): the key of the new mint account
MintKey == "mint-account-key"

MintIdle ==
    [ pc |-> "idle", data |-> <<>>, instructions |-> <<>>, feePayer |-> "",
      recentBlockhash |-> "", signatures |-> <<>>, log |-> <<>>,
      confirmation |-> "", recordMint |-> <<>> ]

\* parseInt(formData.tokenDecimals)
ParseDecimals(data) == IntOfDigits(data.tokenDecimals)

\* variant: the constructor's error is not caught, the text is used as it is
ResolveRecipientUnguarded(data, payer) ==
    IF data.recipientAddress = "" THEN payer ELSE data.recipientAddress

\* new PublicKey(formData.recipientAddress || payer.toString()), payer when
\* the constructor throws
ResolveRecipient(data, payer) ==
    LET text == IF data.recipientAddress = "" THEN payer ELSE data.recipientAddress
    IN  IF text \in PublicKeyStrings THEN text ELSE payer

AssociatedTokenAddress(mintKey, owner) == <<"ata", mintKey, owner>>

\* getAssociatedTokenAddress throws TokenOwnerOffCurveError for an owner off
\* the curve (allowOwnerOffCurve is left at false)
AssociatedTokenAddressThrows(owner) == owner = OffCurveAddress

\* BigInt(x) throws a RangeError when x = parseFloat(tokenSupply) * 10 ** decimals
\* is NaN or has a fraction
InitialSupplyThrows(data) ==
    LET v == ParseFloat(data.tokenSupply)
        d == ParseDecimals(data)
    IN  \/ v = NaN
        \/ v % (Scale \div Pow10(IF d < FracDigits THEN d ELSE FracDigits)) # 0

\* the amount of the mint-to instruction: value * 10^decimals / Scale base units
InitialSupply(data) ==
    [value |-> ParseFloat(data.tokenSupply), decimals |-> ParseDecimals(data)]

\* variant: the authority is transferred whoever the recipient is
TransfersMintAuthorityAlways(data, payer) == data.mintAuthority = "transfer"

\* whether the set-authority instruction is added
TransfersMintAuthority(data, payer) ==
    data.mintAuthority = "transfer" /\ ResolveRecipient(data, payer) # payer

\* the instructions in the order of the transaction.add() calls
BuildInstructions(data, payer) ==
    LET recipient == ResolveRecipient(data, payer)
        ata == AssociatedTokenAddress(MintKey, recipient)
        t1 == <<[op |-> "createAccount", fromPubkey |-> payer,
                 newAccountPubkey |-> MintKey, programId |-> "TokenProgram"]>>
        t2 == Append(t1, [op |-> "initializeMint", mint |-> MintKey,
                          decimals |-> ParseDecimals(data),
                          mintAuthority |-> payer,
                          freezeAuthority |-> IF data.freezeAuthority
                                              THEN <<payer>> ELSE <<>>])
        t3 == Append(t2, [op |-> "createAssociatedTokenAccount", payer |-> payer,
                          associatedToken |-> ata, owner |-> recipient,
                          mint |-> MintKey])
        t4 == Append(t3, [op |-> "mintTo", mint |-> MintKey, destination |-> ata,
                          authority |-> payer, amount |-> InitialSupply(data)])
    IN  IF TransfersMintAuthority(data, payer)
        THEN Append(t4, [op |-> "setAuthority", account |-> MintKey,
                         currentAuthority |-> payer,
                         authorityType |-> "MintTokens",
                         newAuthority |-> recipient])
        ELSE t4

\* ------------------------------------------------------------------------
\* Wizard: initial state
\* ------------------------------------------------------------------------
ServerIdle ==
    /\ plaidItems = {}
    /\ stablecoinMints = {}
    /\ requests = <<>>

\* window.solana with no key and no call under way
PhantomIdle ==
    [publicKey |-> <<>>, isConnected |-> FALSE, connectPending |-> FALSE,
     disconnectPending |-> FALSE]

NoWalletOp == [op |-> "none", key |-> <<>>, ok |-> TRUE]

\* the provider as the wizard and the server see it: Phantom found, no call
\* of connect() or disconnect() under way
WalletSession(isConnected) ==
    /\ wallet = <<"phantom">>
    /\ connected = isConnected
    /\ connecting = FALSE
    /\ connectionError = ""
    /\ phantom = PhantomIdle
    /\ lastWalletOp = NoWalletOp

InitWizard ==
    /\ publicKey \in {<<>>, <<PayerAddress>>}
    /\ currentStep = 1
    /\ verifiedBankAccount = <<>>
    /\ form = [ tokenName |-> "", tokenSymbol |-> "", tokenSupply |-> DefaultSupply,
                tokenDecimals |-> <<"6">>, mintAuthority |-> "keep",
                recipientAddress |-> IF publicKey = <<>> THEN "" ELSE publicKey[1],
                freezeAuthority |-> FALSE ]
    /\ isLoading = FALSE
    /\ tokenCreated = FALSE
    /\ toast = ""
    /\ plaid = PlaidUnmounted
    /\ mint = MintIdle
    /\ ServerIdle
    /\ WalletSession(TRUE)

\* the form is rendered and not covered by the loading overlay
FormUsable == ~tokenCreated /\ ~isLoading /\ mint.pc = "idle"

\* ------------------------------------------------------------------------
\* Wizard: wallet and form fields
\* ------------------------------------------------------------------------
\* the wallet hands its key over after the page was rendered connected
WalletKeyArrives ==
    /\ ~tokenCreated
    /\ publicKey = <<>>
    /\ publicKey' = <<PayerAddress>>
    /\ plaid' = IF plaid.mounted THEN RunLinkTokenEffect(plaid, <<PayerAddress>>)
                ELSE plaid
    /\ toast' = ""
    /\ UNCHANGED <<currentStep, verifiedBankAccount, form, isLoading, tokenCreated,
                   mint, serverVars, walletVars>>

SetField(field, value) ==
    /\ FormUsable
    /\ form[field] # value
    /\ form' = [form EXCEPT ![field] = value]
    /\ toast' = ""
    /\ UNCHANGED <<publicKey, currentStep, verifiedBankAccount, isLoading,
                   tokenCreated, plaid, mint, serverVars, walletVars>>

EditTokenName == currentStep = 1 /\ \E v \in TokenNameSamples : SetField("tokenName", v)
EditTokenSymbol ==
    currentStep = 1 /\ \E v \in TokenSymbolSamples : SetField("tokenSymbol", v)
EditTokenSupply == currentStep = 2 /\ \E v \in SupplyStrings : SetField("tokenSupply", v)
SelectDecimals == currentStep = 2 /\ \E v \in DecimalOptions : SetField("tokenDecimals", v)
SelectMintAuthority ==
    currentStep = 4 /\ \E v \in MintAuthorityOptions : SetField("mintAuthority", v)
EditRecipientAddress ==
    currentStep = 4 /\ \E v \in RecipientSamples : SetField("recipientAddress", v)
ToggleFreezeAuthority ==
    currentStep = 4 /\ SetField("freezeAuthority", ~form.freezeAuthority)

\* step 5: the "Adjust Token Supply" input and "Use Max", rendered while the
\* supply exceeds the verified balance
AdjustSupply ==
    /\ currentStep = 5 /\ CreateTokenDisabled
    /\ \E v \in NumberInputValues : SetField("tokenSupply", v)

UseMax ==
    /\ currentStep = 5 /\ CreateTokenDisabled
    /\ SetField("tokenSupply", NumberToString(verifiedBankAccount[1].availableBalance))

\* ------------------------------------------------------------------------
\* Wizard: navigation
\* ------------------------------------------------------------------------
\* nextStep, from the "Next Step" / "Review Token" buttons of steps 1, 2, 4
NextStep ==
    /\ FormUsable
    /\ currentStep \in {1, 2, 4}
    /\ LET v == validateStep(currentStep)
           to == IF v.isValid THEN currentStep + 1
                 ELSE IF v.setStep # 0 THEN v.setStep ELSE currentStep
       IN  /\ currentStep' = to
           /\ toast' = IF v.isValid THEN "" ELSE "Validation Error"
           /\ plaid' = PlaidAfterStep(currentStep, to)
    /\ UNCHANGED <<publicKey, verifiedBankAccount, form, isLoading, tokenCreated,
                   mint, serverVars, walletVars>>

\* prevStep, from "Previous" / "Edit Details" of steps 2, 4, 5 and from the
\* Back buttons of the bank step (onBack)
PrevStep ==
    /\ FormUsable
    /\ \/ currentStep \in {2, 4, 5}
       \/ currentStep = 3 /\ PlaidView \in {"main", "fallback", "error"}
    /\ currentStep' = currentStep - 1
    /\ plaid' = PlaidAfterStep(currentStep, currentStep - 1)
    /\ toast' = ""
    /\ UNCHANGED <<publicKey, verifiedBankAccount, form, isLoading, tokenCreated,
                   mint, serverVars, walletVars>>

\* ------------------------------------------------------------------------
\* Wizard: bank verification (step 3)
\* ------------------------------------------------------------------------
PlaidStep(p) ==
    /\ plaid' = p
    /\ toast' = ""
    /\ UNCHANGED <<publicKey, currentStep, verifiedBankAccount, form, isLoading,
                   tokenCreated, mint, serverVars, walletVars>>

\* the answer to /api/plaid/create-link-token arrives (getLinkToken and the
\* "Try Again" handler)
LinkTokenResponse(ok) ==
    /\ plaid.mounted /\ plaid.awaiting \in {"link-token", "link-token-retry"}
    /\ PlaidStep(
         IF ok
         THEN [plaid EXCEPT !.token = "link-token", !.loading = FALSE,
                            !.awaiting = "none"]
         ELSE [plaid EXCEPT
                 !.error = IF plaid.awaiting = "link-token"
                           THEN "Could not initialize bank connection. Use fallback method instead."
                           ELSE "Could not initialize bank connection. Please try again.",
                 !.fallbackMode = TRUE, !.loading = FALSE, !.awaiting = "none"])

\* "Try Again" of the plain error screen
TryAgain ==
    /\ FormUsable /\ PlaidView = "error"
    /\ PlaidStep(
         IF publicKey # <<>>
         THEN [plaid EXCEPT !.error = "", !.loading = TRUE,
                            !.awaiting = "link-token-retry"]
         ELSE [plaid EXCEPT !.error = "Wallet connection required",
                            !.loading = FALSE])

\* "Connect Bank", then Plaid Link reports success: handleSuccess up to its
\* request to /api/plaid/exchange-token
PlaidLinkSuccess ==
    /\ FormUsable /\ PlaidView = "main" /\ plaid.token # ""
    /\ PlaidStep(
         IF publicKey = <<>>
         THEN [plaid EXCEPT !.error = "Wallet connection required"]
         ELSE [plaid EXCEPT !.loading = TRUE, !.awaiting = "exchange-token"])

\* "Connect Bank", then the user leaves Plaid Link: onExit
PlaidLinkExit(withError) ==
    /\ FormUsable /\ PlaidView = "main" /\ plaid.token # ""
    /\ PlaidStep(
         [plaid EXCEPT !.loading = FALSE,
                       !.error = IF withError
                                 THEN "Connection interrupted. Please try again."
                                 ELSE plaid.error])

\* handleSuccess: the answer of /api/plaid/exchange-token arrives
ExchangeResponse(response) ==
    /\ plaid.mounted /\ plaid.awaiting = "exchange-token"
    /\ PlaidStep(
         IF response.success /\ response.bankAccount # <<>>
         THEN [plaid EXCEPT !.success = TRUE, !.awaiting = "verified-timer",
                            !.pending = <<ClientBankAccount(response.bankAccount[1])>>,
                            !.via = "exchange-token"]
         ELSE [plaid EXCEPT
                 !.error = "Failed to complete verification. Please try the fallback method.",
                 !.fallbackMode = TRUE, !.loading = FALSE, !.awaiting = "none"])

\* "Use Fallback Method": handleFallbackVerification
UseFallbackMethod ==
    /\ FormUsable /\ PlaidView = "fallback"
    /\ PlaidStep([plaid EXCEPT !.loading = TRUE, !.awaiting = "fallback-timer"])

\* the first timer of handleFallbackVerification
FallbackTimer ==
    /\ plaid.mounted /\ plaid.awaiting = "fallback-timer"
    /\ PlaidStep([plaid EXCEPT !.success = TRUE, !.awaiting = "verified-timer",
                               !.pending = <<FallbackBankAccount>>,
                               !.via = "fallback"])

\* onBankVerified throws only if toFixed is called on something that is no number
OnBankVerifiedThrows(bankInfo) == bankInfo.availableBalance \notin Int

\* variant: onBankVerified advances to step 4 without keeping the snapshot
VerifiedTimerDropsSnapshot ==
    /\ plaid.mounted /\ plaid.awaiting = "verified-timer"
    /\ IF OnBankVerifiedThrows(plaid.pending[1])
       THEN /\ verifiedBankAccount' = IF verifiedBankAccount = <<>>
                                      THEN <<FallbackBankAccount>>
                                      ELSE verifiedBankAccount
            /\ toast' = ""
       ELSE /\ verifiedBankAccount' = verifiedBankAccount
            /\ toast' = "Verification Successful"
    /\ currentStep' = 4
    /\ plaid' = PlaidUnmounted
    /\ UNCHANGED <<publicKey, form, isLoading, tokenCreated, mint, serverVars, walletVars>>

\* variant: onBankVerified lowers a supply above the verified balance to it
VerifiedTimerClampsSupply ==
    /\ plaid.mounted /\ plaid.awaiting = "verified-timer"
    /\ IF OnBankVerifiedThrows(plaid.pending[1])
       THEN /\ verifiedBankAccount' = IF verifiedBankAccount = <<>>
                                      THEN <<FallbackBankAccount>>
                                      ELSE verifiedBankAccount
            /\ toast' = ""
       ELSE /\ verifiedBankAccount' = plaid.pending
            /\ toast' = "Verification Successful"
    /\ form' = IF SupplyExceedsBalance(form.tokenSupply, verifiedBankAccount'[1])
               THEN [form EXCEPT !.tokenSupply =
                        NumberToString(verifiedBankAccount'[1].availableBalance)]
               ELSE form
    /\ currentStep' = 4
    /\ plaid' = PlaidUnmounted
    /\ UNCHANGED <<publicKey, isLoading, tokenCreated, mint, serverVars, walletVars>>

\* the timer that calls onBankVerified(bankAccount), forceAdvance() when that throws
VerifiedTimer ==
    /\ plaid.mounted /\ plaid.awaiting = "verified-timer"
    /\ IF OnBankVerifiedThrows(plaid.pending[1])
       THEN \* forceAdvance
            /\ verifiedBankAccount' = IF verifiedBankAccount = <<>>
                                      THEN <<FallbackBankAccount>>
                                      ELSE verifiedBankAccount
            /\ toast' = ""
       ELSE \* onBankVerified
            /\ verifiedBankAccount' = plaid.pending
            /\ toast' = "Verification Successful"
    /\ currentStep' = 4
    /\ plaid' = PlaidUnmounted
    /\ UNCHANGED <<publicKey, form, isLoading, tokenCreated, mint, serverVars, walletVars>>

\* ------------------------------------------------------------------------
\* Wizard: onSubmit and createSPLToken
\* ------------------------------------------------------------------------
\* the form's submit event reaches onSubmit from the Create Token button of
\* step 5 unless it is disabled, and from the Enter key in the single text
\* field of steps 2 and 4 (a form without a submit button)
SubmitReachable ==
    \/ currentStep = 5 /\ ~CreateTokenDisabled
    \/ currentStep \in {2, 4}

\* onSubmit's checks in their order: "no-wallet" (it returns), "unverified"
\* (back to step 3), "insufficient" (back to step 2) or "mint"
SubmitOutcome ==
    IF publicKey = <<>> THEN "no-wallet"
    ELSE IF verifiedBankAccount = <<>> THEN "unverified"
    ELSE IF SupplyExceedsBalance(form.tokenSupply, verifiedBankAccount[1])
        THEN "insufficient"
    ELSE "mint"

\* onSubmit up to its first await: the wallet check, the two gates, then
\* createSPLToken up to getMinimumBalanceForRentExemptMint
OnSubmit ==
    /\ FormUsable
    /\ SubmitReachable
    /\ CASE SubmitOutcome = "no-wallet" ->
              /\ toast' = ""
              /\ UNCHANGED <<currentStep, plaid, isLoading, mint>>
         [] SubmitOutcome = "unverified" ->
              /\ toast' = "Bank Verification Required"
              /\ currentStep' = 3
              /\ plaid' = PlaidAfterStep(currentStep, 3)
              /\ UNCHANGED <<isLoading, mint>>
         [] SubmitOutcome = "insufficient" ->
              /\ toast' = "Insufficient Bank Balance"
              /\ currentStep' = 2
              /\ plaid' = PlaidAfterStep(currentStep, 2)
              /\ UNCHANGED <<isLoading, mint>>
         [] SubmitOutcome = "mint" ->
              /\ toast' = ""
              /\ isLoading' = TRUE
              /\ mint' = [MintIdle EXCEPT !.pc = "rent", !.data = <<form>>]
              /\ UNCHANGED <<currentStep, plaid>>
    /\ UNCHANGED <<publicKey, verifiedBankAccount, form, tokenCreated, serverVars, walletVars>>

\* createSPLToken throws; the catch of onSubmit clears the overlay and reports
\* the messages of the errors createSPLToken can throw
NetworkErrorMessage == "failed to fetch"
OffCurveErrorMessage == "An error occurred while creating your token"
RangeErrorMessage == "The number cannot be converted to a BigInt"
NotApprovedMessage == "Transaction was not approved by the wallet"
OnChainErrorMessage == "Transaction failed: InstructionError"
NotConfirmedMessage == "Transaction was not confirmed"
MintErrorMessages ==
    {NetworkErrorMessage, OffCurveErrorMessage, RangeErrorMessage,
     NotApprovedMessage, OnChainErrorMessage, NotConfirmedMessage}

\* the destructive toast of onSubmit's catch: its title, then its description
FailureToast(message) == "Token Creation Failed: " \o message

MintFails(message) ==
    /\ isLoading' = FALSE
    /\ toast' = FailureToast(message)
    /\ mint' = MintIdle
    /\ UNCHANGED <<publicKey, currentStep, verifiedBankAccount, form, tokenCreated,
                   plaid, serverVars, walletVars>>

MintContinues(m) ==
    /\ mint' = m
    /\ toast' = ""
    /\ UNCHANGED <<publicKey, currentStep, verifiedBankAccount, form, isLoading,
                   tokenCreated, plaid, serverVars, walletVars>>

\* the rent query returns: the instructions are built and the fee payer set,
\* then the blockhash is requested
RentReturns(ok) ==
    /\ mint.pc = "rent"
    /\ IF ~ok THEN MintFails(NetworkErrorMessage)
       ELSE IF AssociatedTokenAddressThrows(
                   ResolveRecipient(mint.data[1], publicKey[1]))
       THEN MintFails(OffCurveErrorMessage)
       ELSE IF InitialSupplyThrows(mint.data[1])
       THEN MintFails(RangeErrorMessage)
       ELSE MintContinues(
              [mint EXCEPT !.pc = "blockhash",
                           !.instructions = BuildInstructions(mint.data[1], publicKey[1]),
                           !.feePayer = publicKey[1],
                           !.log = mint.log \o <<"rent", "instructions">>])

\* getLatestBlockhash returns: the blockhash is attached, the mint key signs,
\* then the wallet is asked to sign
BlockhashReturns(ok) ==
    /\ mint.pc = "blockhash"
    /\ IF ~ok
       THEN MintFails(NetworkErrorMessage)
       ELSE MintContinues(
              [mint EXCEPT !.pc = "sign",
                           !.recentBlockhash = "blockhash",
                           !.signatures = Append(mint.signatures, MintKey),
                           !.log = mint.log \o <<"blockhash", "partialSign">>])

\* variant: the transaction is sent whether or not the wallet signed
WalletSignSendsAnyway(approved) ==
    /\ mint.pc = "sign"
    /\ MintContinues(
         [mint EXCEPT !.pc = "send",
                      !.signatures = IF approved
                                     THEN Append(mint.signatures, publicKey[1])
                                     ELSE mint.signatures,
                      !.log = mint.log \o <<"walletSignature", "sendRawTransaction">>])

\* signTransaction of onSubmit returns or throws "Transaction was not approved
\* by the wallet"; approved, the transaction is sent
WalletSignReturns(approved) ==
    /\ mint.pc = "sign"
    /\ IF ~approved
       THEN MintFails(NotApprovedMessage)
       ELSE MintContinues(
              [mint EXCEPT !.pc = "send",
                           !.signatures = Append(mint.signatures, publicKey[1]),
                           !.log = mint.log \o <<"walletSignature", "sendRawTransaction">>])

\* sendRawTransaction returns; confirmTransaction is awaited
SendReturns(ok) ==
    /\ mint.pc = "send"
    /\ IF ~ok
       THEN MintFails(NetworkErrorMessage)
       ELSE MintContinues([mint EXCEPT !.pc = "confirm"])

\* variant: confirmation.value.err is not looked at
ConfirmIgnoresChainError(outcome) ==
    /\ mint.pc = "confirm"
    /\ IF outcome = "throws"
       THEN MintFails(NotConfirmedMessage)
       ELSE MintContinues(
              [mint EXCEPT !.pc = "record-mint",
                           !.log = Append(mint.log, "confirmed"),
                           !.confirmation = outcome,
                           !.recordMint =
                               <<[walletAddress |-> publicKey[1],
                                  tokenAddress |-> MintKey,
                                  amount |-> ParseFloat(mint.data[1].tokenSupply),
                                  transactionId |-> "signature"]>>])

\* confirmTransaction returns without error ("ok"), with value.err ("err") or
\* throws ("throws"); confirmed, onSubmit posts /api/plaid/record-mint
ConfirmReturns(outcome) ==
    /\ mint.pc = "confirm"
    /\ IF outcome # "ok"
       THEN MintFails(IF outcome = "err" THEN OnChainErrorMessage
                      ELSE NotConfirmedMessage)
       ELSE MintContinues(
              [mint EXCEPT !.pc = "record-mint",
                           !.log = Append(mint.log, "confirmed"),
                           !.confirmation = outcome,
                           !.recordMint =
                               <<[walletAddress |-> publicKey[1],
                                  tokenAddress |-> MintKey,
                                  amount |-> ParseFloat(mint.data[1].tokenSupply),
                                  transactionId |-> "signature"]>>])

\* variant: a failed record-mint request is treated as a failed creation
RecordMintFailureFailsMint(ok) ==
    /\ mint.pc = "record-mint"
    /\ IF ok
       THEN /\ mint' = [mint EXCEPT !.pc = "recorded"]
            /\ tokenCreated' = TRUE
            /\ isLoading' = FALSE
            /\ toast' = ""
            /\ UNCHANGED <<publicKey, currentStep, verifiedBankAccount, form, plaid,
                           serverVars, walletVars>>
       ELSE MintFails(NetworkErrorMessage)

\* the record-mint request returns or fails; either way onTokenCreationSuccess
RecordMintReturns(ok) ==
    /\ mint.pc = "record-mint"
    /\ mint' = [mint EXCEPT !.pc = IF ok THEN "recorded" ELSE "not-recorded"]
    /\ tokenCreated' = TRUE
    /\ isLoading' = FALSE
    /\ toast' = ""
    /\ UNCHANGED <<publicKey, currentStep, verifiedBankAccount, form, plaid,
                   serverVars, walletVars>>

NextWizard ==
    \/ WalletKeyArrives
    \/ EditTokenName \/ EditTokenSymbol \/ EditTokenSupply \/ SelectDecimals
    \/ SelectMintAuthority \/ EditRecipientAddress \/ ToggleFreezeAuthority
    \/ AdjustSupply \/ UseMax
    \/ NextStep \/ PrevStep
    \/ \E ok \in BOOLEAN : LinkTokenResponse(ok)
    \/ TryAgain
    \/ PlaidLinkSuccess
    \/ \E withError \in BOOLEAN : PlaidLinkExit(withError)
    \/ \E response \in ExchangeResponses : ExchangeResponse(response)
    \/ UseFallbackMethod \/ FallbackTimer \/ VerifiedTimer
    \/ OnSubmit
    \/ \E ok \in BOOLEAN : RentReturns(ok)
    \/ \E ok \in BOOLEAN : BlockhashReturns(ok)
    \/ \E approved \in BOOLEAN : WalletSignReturns(approved)
    \/ \E ok \in BOOLEAN : SendReturns(ok)
    \/ \E outcome \in {"ok", "err", "throws"} : ConfirmReturns(outcome)
    \/ \E ok \in BOOLEAN : RecordMintReturns(ok)

SpecWizard == InitWizard /\ [][NextWizard]_vars


\* ------------------------------------------------------------------------
\* Server: the tables (shared/schema.ts)
\* ------------------------------------------------------------------------
DbNull == 0 - 3

\* a decimal(12, 2) column: the number text, rounded to two decimals
DecimalColumn(v) ==
    IF v = DbNull THEN DbNull
    ELSE LET n == ParseFloat(NumberToString(v))
             cent == Scale \div 100
         IN  IF n = NaN THEN DbNull
             ELSE ((n + (cent \div 2)) \div cent) * cent

\* serial primary keys; rows are never deleted
NextSerial(table) == Cardinality(table) + 1

\* the unique constraints of plaid_items: wallet_address_idx and item_id
PlaidItemConflicts(table, values) ==
    \E row \in table :
        \/ row.wallet_address = values.wallet_address
        \/ row.item_id = values.item_id

\* variant: plaid_items without the unique index on wallet_address
DbInsertWithoutWalletIndex(table, values) ==
    IF \E row \in table : row.item_id = values.item_id
    THEN [ok |-> FALSE, table |-> table]
    ELSE [ok |-> TRUE,
          table |-> table \cup {[id |-> NextSerial(table)] @@ values}]

\* variant: the insert overwrites the row that holds the same item_id
DbUpsertPlaidItemByItemId(table, values) ==
    LET same == {row \in table : row.item_id = values.item_id}
    IN  IF same # {}
        THEN [ok |-> TRUE,
              table |-> (table \ same) \cup {[id |-> row.id] @@ values : row \in same}]
        ELSE IF PlaidItemConflicts(table, values)
        THEN [ok |-> FALSE, table |-> table]
        ELSE [ok |-> TRUE,
              table |-> table \cup {[id |-> NextSerial(table)] @@ values}]

\* db.insert(plaidItems).values(values): the table afterwards, or the
\* constraint violation
DbInsertPlaidItem(table, values) ==
    IF PlaidItemConflicts(table, values)
    THEN [ok |-> FALSE, table |-> table]
    ELSE [ok |-> TRUE,
          table |-> table \cup {[id |-> NextSerial(table)] @@ values}]

\* variant: the update refreshes the balances and keeps the linked item
DbUpdateBalancesOnly(table, id, values) ==
    [ok |-> TRUE,
     table |-> {IF row.id = id
                THEN [row EXCEPT !.current_balance = values.current_balance,
                                 !.available_balance = values.available_balance]
                ELSE row : row \in table}]

\* db.update(plaidItems).set(values).where(eq(plaidItems.id, id))
DbUpdatePlaidItem(table, id, values) ==
    LET others == {row \in table : row.id # id}
    IN  IF PlaidItemConflicts(others, values)
        THEN [ok |-> FALSE, table |-> table]
        ELSE [ok |-> TRUE,
              table |-> others \cup {[id |-> row.id] @@ values : row \in table \ others}]

\* variant: the select without its where clause
DbSelectAnyPlaidItem(table, w) ==
    IF table # {} THEN {<<row>> : row \in table} ELSE {<<>>}

\* db.select().from(plaidItems).where(eq(wallet_address, w)).limit(1): the
\* possible results, each <<>> or <<row>>
DbSelectPlaidItem(table, w) ==
    IF \E row \in table : row.wallet_address = w
    THEN {<<row>> : row \in {x \in table : x.wallet_address = w}}
    ELSE {<<>>}

\* db.insert(stablecoinMints).values(values); plaid_item_id references
\* plaid_items.id
DbInsertMint(mints, items, values) ==
    IF \E row \in items : row.id = values.plaid_item_id
    THEN [ok |-> TRUE, table |-> mints \cup {[id |-> NextSerial(mints)] @@ values}]
    ELSE [ok |-> FALSE, table |-> mints]

\* ------------------------------------------------------------------------
\* Server: plaidService
\* ------------------------------------------------------------------------
\* x ? x.toString() : null
TextOrNull(x) == IF x = Absent \/ x = 0 THEN DbNull ELSE x

\* exchangePublicToken: the plaidItem object it stores
PlaidItemValues(walletAddress, answer) ==
    [ wallet_address |-> walletAddress,
      item_id |-> answer.item,
      access_token |-> <<"access", answer.item>>,
      institution_name |-> answer.institution,
      account_name |-> "Plaid Checking",
      account_mask |-> "0000",
      current_balance |-> DecimalColumn(TextOrNull(answer.current)),
      available_balance |->
          DecimalColumn(IF TextOrNull(answer.available) # DbNull
                        THEN TextOrNull(answer.available)
                        ELSE TextOrNull(answer.current)) ]

\* recordStablecoinMint: the row it inserts
MintValues(body, plaidItemId, status) ==
    [ wallet_address |-> body.walletAddress,
      plaid_item_id |-> plaidItemId,
      token_address |-> body.tokenAddress,
      amount_minted |-> DecimalColumn(body.amount),
      status |-> status,
      transaction_id |-> IF body.transactionId = "" THEN <<>>
                         ELSE <<body.transactionId>>,
      completed |-> status = "completed" ]

\* ------------------------------------------------------------------------
\* Server: request bodies and validation (routes.ts)
\* ------------------------------------------------------------------------
WalletSamples == {PayerAddress, OtherAddress, MalformedAddress}
\* 0, 5.125 and 60
AmountSamples == {0, 5 * Scale + (Scale \div 8), 60 * Scale}
TokenAddress == "TokenMintAddressTokenMintAddress1234"
\* a string of 45 characters
OverlongAddress == "OverlongWa11etAddressOverlongWa11etAddress123"

\* bodies of account-info and mint-history
WalletBodies == {[walletAddress |-> w] : w \in WalletSamples}
\* bodies of create-link-token, which reads and writes no row
LinkTokenBodies ==
    {[walletAddress |-> w] : w \in {PayerAddress, MalformedAddress, OverlongAddress}}
\* bodies of record-mint
RecordMintBodies ==
    {[walletAddress |-> w, tokenAddress |-> TokenAddress, amount |-> amount,
      transactionId |-> "signature"] :
        w \in WalletSamples \ {MalformedAddress}, amount \in AmountSamples \ {0}}
        \cup {[walletAddress |-> MalformedAddress, tokenAddress |-> TokenAddress,
               amount |-> 60 * Scale, transactionId |-> "signature"],
              [walletAddress |-> PayerAddress, tokenAddress |-> TokenAddress,
               amount |-> 0, transactionId |-> "signature"]}
\* bodies of exchange-token: publicToken is <<>> when the body has none
ExchangeBodies ==
    {[walletAddress |-> w, publicToken |-> <<"public-sandbox-token">>] :
        w \in WalletSamples}
        \cup {[walletAddress |-> PayerAddress, publicToken |-> <<>>]}

\* z.string().min(32).max(44)
IsWalletAddress(w) == Len(w) >= 32 /\ Len(w) <= 44

\* variant: only the wallet address is validated
BodyIsValidWalletOnly(kind, body) == IsWalletAddress(body.walletAddress)

\* walletAddressSchema / exchangeTokenSchema / mintStablecoinSchema
BodyIsValid(kind, body) ==
    /\ IsWalletAddress(body.walletAddress)
    /\ kind = "exchange-token" => body.publicToken # <<>>
    /\ kind = "record-mint" => IsWalletAddress(body.tokenAddress) /\ body.amount > 0

\* the request after validateBody: answered 400, or at the first await of its
\* route; plaidCalls counts the calls to the Plaid API made for it, dbFailed
\* tells that a database operation of it threw, conflict that the database
\* was up and refused the write (a unique index), credentials whether
\* PLAID_CLIENT_ID and PLAID_SECRET were set when it was handled
NewRequest(kind, body) ==
    [ kind |-> kind, body |-> body,
      pc |-> IF ~BodyIsValid(kind, body) THEN "done"
             ELSE IF kind \in {"exchange-token", "create-link-token"} THEN "plaid"
             ELSE "select",
      status |-> IF BodyIsValid(kind, body) THEN 0 ELSE 400,
      answer |-> <<>>, selected |-> <<>>, stored |-> FALSE,
      response |-> IF BodyIsValid(kind, body) THEN <<>>
                   ELSE <<[error |-> "Invalid request body"]>>,
      plaidCalls |-> IF BodyIsValid(kind, body)
                        /\ kind \in {"exchange-token", "create-link-token"}
                     THEN 1 ELSE 0,
      dbFailed |-> FALSE, conflict |-> FALSE, credentials |-> TRUE,
      after |-> {i \in DOMAIN requests : requests[i].pc = "done"} ]

InitServer ==
    /\ publicKey = <<>>
    /\ currentStep = 1
    /\ verifiedBankAccount = <<>>
    /\ form = [ tokenName |-> "", tokenSymbol |-> "", tokenSupply |-> DefaultSupply,
                tokenDecimals |-> <<"6">>, mintAuthority |-> "keep",
                recipientAddress |-> "", freezeAuthority |-> FALSE ]
    /\ isLoading = FALSE
    /\ tokenCreated = FALSE
    /\ toast = ""
    /\ plaid = PlaidUnmounted
    /\ mint = MintIdle
    /\ ServerIdle
    /\ WalletSession(FALSE)


\* ------------------------------------------------------------------------
\* Server: POST /api/plaid/exchange-token
\* ------------------------------------------------------------------------
\* variant: the 500 answer is not sent, the error leaves the handler
RespondUnlessFailure(r, status, body) ==
    IF status = 500
    THEN [requests EXCEPT ![r].pc = "done"]
    ELSE [requests EXCEPT ![r].pc = "done", ![r].status = status,
                          ![r].response = <<body>>]

\* res.status(status).json(body): the request is answered
Respond(r, status, body) ==
    [requests EXCEPT ![r].pc = "done", ![r].status = status,
                     ![r].response = <<body>>]

\* a database operation of request r threw
DbFails(reqs, r) == [reqs EXCEPT ![r].dbFailed = TRUE]

\* the request arrives; validateBody answers 400 or hands over to the route
ReceiveExchangeToken(body) ==
    /\ Len(requests) < MaxRequests
    /\ requests' = Append(requests, NewRequest("exchange-token", body))
    /\ UNCHANGED <<plaidItems, stablecoinMints, wizardVars, walletVars>>

\* itemPublicTokenExchange, itemGet, institutionsGetById, accountsGet and
\* accountsBalanceGet have answered, or one of them threw
ExchangePlaidReturns(r, answer) ==
    /\ requests[r].kind = "exchange-token"
    /\ requests[r].pc = "plaid"
    /\ requests' =
         IF answer = <<>>
         THEN Respond(r, 500, ExchangeTokenFailure)
         ELSE [requests EXCEPT ![r].pc = "select", ![r].answer = answer]
    /\ UNCHANGED <<plaidItems, stablecoinMints, wizardVars, walletVars>>

\* the select for the wallet's row has answered; a database error is logged
\* and the snapshot is returned all the same
ExchangeSelectReturns(r, dbUp) ==
    /\ requests[r].kind = "exchange-token"
    /\ requests[r].pc = "select"
    /\ IF dbUp
       THEN \E existingItem \in
                DbSelectPlaidItem(plaidItems, requests[r].body.walletAddress) :
              requests' = [requests EXCEPT ![r].pc = "write",
                                           ![r].selected = <<existingItem>>]
       ELSE requests' = DbFails(Respond(r, 200,
                ExchangeTokenResponse(ExchangeResult(requests[r].answer[1]))), r)
    /\ UNCHANGED <<plaidItems, stablecoinMints, wizardVars, walletVars>>

\* variant: a write that fails is reported as stored
ExchangeWriteAlwaysStored(r, dbUp) ==
    /\ requests[r].kind = "exchange-token"
    /\ requests[r].pc = "write"
    /\ LET existingItem == requests[r].selected[1]
           values == PlaidItemValues(requests[r].body.walletAddress,
                                     requests[r].answer[1])
           write == IF existingItem # <<>>
                    THEN DbUpdatePlaidItem(plaidItems, existingItem[1].id, values)
                    ELSE DbInsertPlaidItem(plaidItems, values)
           done == Respond(r, 200,
                ExchangeTokenResponse(ExchangeResult(requests[r].answer[1])))
       IN  /\ plaidItems' = IF dbUp THEN write.table ELSE plaidItems
           /\ requests' = [done EXCEPT ![r].stored = TRUE]
    /\ UNCHANGED <<stablecoinMints, wizardVars, walletVars>>

\* the update or the insert has answered; the route sends the snapshot
ExchangeWriteReturns(r, dbUp) ==
    /\ requests[r].kind = "exchange-token"
    /\ requests[r].pc = "write"
    /\ LET existingItem == requests[r].selected[1]
           values == PlaidItemValues(requests[r].body.walletAddress,
                                     requests[r].answer[1])
           write == IF existingItem # <<>>
                    THEN DbUpdatePlaidItem(plaidItems, existingItem[1].id, values)
                    ELSE DbInsertPlaidItem(plaidItems, values)
           done == Respond(r, 200,
                ExchangeTokenResponse(ExchangeResult(requests[r].answer[1])))
       IN  IF dbUp /\ write.ok
           THEN /\ plaidItems' = write.table
                /\ requests' = [done EXCEPT ![r].stored = TRUE]
           ELSE /\ plaidItems' = plaidItems
                /\ requests' = [DbFails(done, r) EXCEPT ![r].conflict = dbUp]
    /\ UNCHANGED <<stablecoinMints, wizardVars, walletVars>>

\* ------------------------------------------------------------------------
\* Server: POST /api/plaid/record-mint
\* ------------------------------------------------------------------------
ReceiveRecordMint(body) ==
    /\ Len(requests) < MaxRequests
    /\ requests' = Append(requests, NewRequest("record-mint", body))
    /\ UNCHANGED <<plaidItems, stablecoinMints, wizardVars, walletVars>>

\* the select for the wallet's row has answered
RecordMintSelectReturns(r, dbUp) ==
    /\ requests[r].kind = "record-mint"
    /\ requests[r].pc = "select"
    /\ IF dbUp
       THEN \E plaidItem \in
                DbSelectPlaidItem(plaidItems, requests[r].body.walletAddress) :
              requests' =
                IF plaidItem = <<>>
                THEN Respond(r, 500, [error |-> "Failed to record stablecoin mint"])
                ELSE [requests EXCEPT ![r].pc = "write",
                                      ![r].selected = <<plaidItem>>]
       ELSE requests' = DbFails(Respond(r, 500,
                [error |-> "Failed to record stablecoin mint"]), r)
    /\ UNCHANGED <<plaidItems, stablecoinMints, wizardVars, walletVars>>

\* the insert of the minting record has answered
RecordMintInsertReturns(r, dbUp) ==
    /\ requests[r].kind = "record-mint"
    /\ requests[r].pc = "write"
    /\ LET write == DbInsertMint(stablecoinMints, plaidItems,
                        MintValues(requests[r].body,
                                   requests[r].selected[1][1].id, "completed"))
       IN  IF dbUp /\ write.ok
           THEN /\ stablecoinMints' = write.table
                /\ requests' = [Respond(r, 200, [success |-> TRUE])
                                    EXCEPT ![r].stored = TRUE]
           ELSE /\ stablecoinMints' = stablecoinMints
                /\ requests' = DbFails(Respond(r, 500,
                                    [error |-> "Failed to record stablecoin mint"]), r)
    /\ UNCHANGED <<plaidItems, wizardVars, walletVars>>

\* ------------------------------------------------------------------------
\* Server: POST /api/plaid/create-link-token
\* ------------------------------------------------------------------------
ConfigurationErrorMessage == "PLAID_ERROR: Banking service configuration is missing"
PlaidApiErrorMessage == "Plaid API Error: invalid client_id or secret provided"
DefaultLinkTokenErrorMessage == "Failed to create bank link token"

\* how a linkTokenCreate call can end: with a token, with a response
\* without link_token, with an error carrying response.data, with an error
\* carrying only a message, with an error carrying neither
LinkTokenOutcomes ==
    {"token", "no-token", "api-error", "network-error", "bare-error"}

\* the body of the 500 answer built by the outer catch
LinkTokenFailure(outcome) ==
    [error |-> IF outcome = "api-error" THEN PlaidApiErrorMessage
               ELSE IF outcome = "network-error" THEN NetworkErrorMessage
               ELSE DefaultLinkTokenErrorMessage]

\* variant: createLinkToken is called without the check of the credentials
ReceiveCreateLinkTokenUnchecked(body, configured) ==
    /\ Len(requests) < MaxRequests
    /\ LET req == NewRequest("create-link-token", body)
       IN  requests' = Append(requests,
             IF req.status = 400 THEN req
             ELSE [req EXCEPT !.credentials = configured])
    /\ UNCHANGED <<plaidItems, stablecoinMints, wizardVars, walletVars>>

\* the request arrives: validateBody, then the check of the credentials, then
\* createLinkToken is called
ReceiveCreateLinkToken(body, configured) ==
    /\ Len(requests) < MaxRequests
    /\ LET req == NewRequest("create-link-token", body)
       IN  requests' = Append(requests,
             IF req.status = 400 THEN req
             ELSE IF ~configured
             THEN [req EXCEPT !.credentials = FALSE, !.pc = "done",
                              !.status = 500, !.plaidCalls = 0,
                              !.response = <<[error |-> ConfigurationErrorMessage]>>]
             ELSE req)
    /\ UNCHANGED <<plaidItems, stablecoinMints, wizardVars, walletVars>>

\* createLinkToken returns the token or throws; when it throws the route
\* calls plaidClient.linkTokenCreate itself
CreateLinkTokenReturns(r, outcome) ==
    /\ requests[r].kind = "create-link-token"
    /\ requests[r].pc = "plaid"
    /\ requests' =
         IF outcome = "token"
         THEN Respond(r, 200, [link_token |-> <<"link-sandbox-token">>])
         ELSE [requests EXCEPT ![r].pc = "fallback", ![r].plaidCalls = 2]
    /\ UNCHANGED <<plaidItems, stablecoinMints, wizardVars, walletVars>>

\* the second linkTokenCreate returns, whose data is sent as it is, or throws
FallbackLinkTokenReturns(r, outcome) ==
    /\ requests[r].kind = "create-link-token"
    /\ requests[r].pc = "fallback"
    /\ requests' =
         IF outcome = "token"
         THEN Respond(r, 200, [link_token |-> <<"link-sandbox-token">>])
         ELSE IF outcome = "no-token"
         THEN Respond(r, 200, [link_token |-> <<>>])
         ELSE Respond(r, 500, LinkTokenFailure(outcome))
    /\ UNCHANGED <<plaidItems, stablecoinMints, wizardVars, walletVars>>

\* ------------------------------------------------------------------------
\* Server: POST /api/plaid/account-info
\* ------------------------------------------------------------------------
\* the balances accountsBalanceGet answers
BalanceAnswers ==
    { [available |-> 0, current |-> 70 * Scale],
      [available |-> Absent, current |-> Absent] }

\* a || b of JavaScript, for balances
JsOr(a, b) == IF a = Absent \/ a = 0 \/ a = NaN THEN b ELSE a

AccountInfoFailure == [error |-> "Failed to get account information"]

\* getBankAccountInfo's result inside the 200 answer
AccountInfoResponse(item, balances) ==
    [ success |-> TRUE,
      bankAccount |->
        [ institutionName |-> item.institution_name,
          accountName |-> item.account_name,
          accountMask |-> item.account_mask,
          currentBalance |-> balances.current,
          availableBalance |-> JsOr(balances.available, balances.current) ] ]

\* db.update(plaidItems).set({current_balance, available_balance,
\* last_updated}).where(eq(plaidItems.id, id))
DbUpdateBalances(table, id, balances) ==
    {IF row.id = id
     THEN [row EXCEPT
             !.current_balance = DecimalColumn(TextOrNull(balances.current)),
             !.available_balance =
                 DecimalColumn(IF TextOrNull(balances.available) # DbNull
                               THEN TextOrNull(balances.available)
                               ELSE TextOrNull(balances.current))]
     ELSE row : row \in table}

ReceiveAccountInfo(body) ==
    /\ Len(requests) < MaxRequests
    /\ requests' = Append(requests, NewRequest("account-info", body))
    /\ UNCHANGED <<plaidItems, stablecoinMints, wizardVars, walletVars>>

\* variant: a wallet without a row is answered like a failure
AccountInfoSelectNullIsError(r, dbUp) ==
    /\ requests[r].kind = "account-info"
    /\ requests[r].pc = "select"
    /\ IF dbUp
       THEN \E plaidItem \in
                DbSelectPlaidItem(plaidItems, requests[r].body.walletAddress) :
              requests' =
                IF plaidItem = <<>>
                THEN Respond(r, 500, AccountInfoFailure)
                ELSE [requests EXCEPT ![r].pc = "plaid",
                                      ![r].selected = <<plaidItem>>,
                                      ![r].plaidCalls = 1]
       ELSE requests' = DbFails(Respond(r, 500, AccountInfoFailure), r)
    /\ UNCHANGED <<plaidItems, stablecoinMints, wizardVars, walletVars>>

\* the select for the wallet's row has answered: no row is 404, a row starts
\* accountsBalanceGet, a database error is 500
AccountInfoSelectReturns(r, dbUp) ==
    /\ requests[r].kind = "account-info"
    /\ requests[r].pc = "select"
    /\ IF dbUp
       THEN \E plaidItem \in
                DbSelectPlaidItem(plaidItems, requests[r].body.walletAddress) :
              requests' =
                IF plaidItem = <<>>
                THEN Respond(r, 404, [error |-> "No linked bank account found"])
                ELSE [requests EXCEPT ![r].pc = "plaid",
                                      ![r].selected = <<plaidItem>>,
                                      ![r].plaidCalls = 1]
       ELSE requests' = DbFails(Respond(r, 500, AccountInfoFailure), r)
    /\ UNCHANGED <<plaidItems, stablecoinMints, wizardVars, walletVars>>

\* accountsBalanceGet has answered (answer = <<balances>>) or thrown (<<>>)
AccountInfoPlaidReturns(r, answer) ==
    /\ requests[r].kind = "account-info"
    /\ requests[r].pc = "plaid"
    /\ requests' =
         IF answer = <<>>
         THEN Respond(r, 500, AccountInfoFailure)
         ELSE [requests EXCEPT ![r].pc = "write", ![r].answer = answer]
    /\ UNCHANGED <<plaidItems, stablecoinMints, wizardVars, walletVars>>

\* variant: a failed update of the balances fails the call
AccountInfoUpdateFailureFails(r, dbUp) ==
    /\ requests[r].kind = "account-info"
    /\ requests[r].pc = "write"
    /\ LET item == requests[r].selected[1][1]
           balances == requests[r].answer[1]
           done == Respond(r, 200, AccountInfoResponse(item, balances))
       IN  IF dbUp
           THEN /\ plaidItems' = DbUpdateBalances(plaidItems, item.id, balances)
                /\ requests' = [done EXCEPT ![r].stored = TRUE]
           ELSE /\ plaidItems' = plaidItems
                /\ requests' = DbFails(Respond(r, 500, AccountInfoFailure), r)
    /\ UNCHANGED <<stablecoinMints, wizardVars, walletVars>>

\* the update of the balances has answered or thrown; either way the
\* snapshot with the live balances is returned
AccountInfoUpdateReturns(r, dbUp) ==
    /\ requests[r].kind = "account-info"
    /\ requests[r].pc = "write"
    /\ LET item == requests[r].selected[1][1]
           balances == requests[r].answer[1]
           done == Respond(r, 200, AccountInfoResponse(item, balances))
       IN  IF dbUp
           THEN /\ plaidItems' = DbUpdateBalances(plaidItems, item.id, balances)
                /\ requests' = [done EXCEPT ![r].stored = TRUE]
           ELSE /\ plaidItems' = plaidItems
                /\ requests' = DbFails(done, r)
    /\ UNCHANGED <<stablecoinMints, wizardVars, walletVars>>

\* ------------------------------------------------------------------------
\* Server: POST /api/plaid/mint-history
\* ------------------------------------------------------------------------
\* the text drizzle returns for a decimal(12, 2) column: two decimals
DecimalText(v) ==
    LET cents == (v % Scale) \div (Scale \div 100)
    IN  DigitsOfInt(v \div Scale)
            \o <<".", DigitChar(cents \div 10), DigitChar(cents % 10)>>

\* a row of stablecoin_mints as the select returns it
MintRowAsSelected(row) == [row EXCEPT !.amount_minted = DecimalText(row.amount_minted)]

RECURSIVE OrderByCreatedAt(_)
\* the rows in the order of created_at, which is the order of their insertion
OrderByCreatedAt(rows) ==
    IF rows = {} THEN <<>>
    ELSE LET first == CHOOSE row \in rows : \A other \in rows : row.id <= other.id
         IN  <<MintRowAsSelected(first)>> \o OrderByCreatedAt(rows \ {first})

ReceiveMintHistory(body) ==
    /\ Len(requests) < MaxRequests
    /\ requests' = Append(requests, NewRequest("mint-history", body))
    /\ UNCHANGED <<plaidItems, stablecoinMints, wizardVars, walletVars>>

\* the select of the wallet's minting records has answered or thrown
MintHistorySelectReturns(r, dbUp) ==
    /\ requests[r].kind = "mint-history"
    /\ requests[r].pc = "select"
    /\ requests' =
         IF dbUp
         THEN Respond(r, 200,
                [success |-> TRUE,
                 history |-> OrderByCreatedAt(
                    {row \in stablecoinMints :
                        row.wallet_address = requests[r].body.walletAddress})])
         ELSE DbFails(Respond(r, 500, [error |-> "Failed to get minting history"]), r)
    /\ UNCHANGED <<plaidItems, stablecoinMints, wizardVars, walletVars>>

NextServer ==
    \/ \E body \in ExchangeBodies : ReceiveExchangeToken(body)
    \/ \E r \in DOMAIN requests, a \in {<<>>} \cup {<<x>> : x \in PlaidAnswers} :
            ExchangePlaidReturns(r, a)
    \/ \E r \in DOMAIN requests, dbUp \in BOOLEAN : ExchangeSelectReturns(r, dbUp)
    \/ \E r \in DOMAIN requests, dbUp \in BOOLEAN : ExchangeWriteReturns(r, dbUp)
    \/ \E body \in RecordMintBodies : ReceiveRecordMint(body)
    \/ \E r \in DOMAIN requests, dbUp \in BOOLEAN : RecordMintSelectReturns(r, dbUp)
    \/ \E r \in DOMAIN requests, dbUp \in BOOLEAN : RecordMintInsertReturns(r, dbUp)
    \/ \E body \in LinkTokenBodies, configured \in BOOLEAN :
            ReceiveCreateLinkToken(body, configured)
    \/ \E r \in DOMAIN requests, outcome \in LinkTokenOutcomes :
            CreateLinkTokenReturns(r, outcome)
    \/ \E r \in DOMAIN requests, outcome \in LinkTokenOutcomes :
            FallbackLinkTokenReturns(r, outcome)
    \/ \E body \in WalletBodies : ReceiveAccountInfo(body)
    \/ \E r \in DOMAIN requests, dbUp \in BOOLEAN : AccountInfoSelectReturns(r, dbUp)
    \/ \E r \in DOMAIN requests, a \in {<<>>} \cup {<<x>> : x \in BalanceAnswers} :
            AccountInfoPlaidReturns(r, a)
    \/ \E r \in DOMAIN requests, dbUp \in BOOLEAN : AccountInfoUpdateReturns(r, dbUp)
    \/ \E body \in WalletBodies : ReceiveMintHistory(body)
    \/ \E r \in DOMAIN requests, dbUp \in BOOLEAN : MintHistorySelectReturns(r, dbUp)

SpecServer == InitServer /\ [][NextServer]_vars


\* ------------------------------------------------------------------------
\* Properties of the wizard (SpecWizard)
\* ------------------------------------------------------------------------
\* C1: with a verified snapshot, each of the three checks of the supply gate
\* (validateStep for step 3, onSubmit, the enabled state of the Create Token
\* button) lets the user proceed if and only if s = parseFloat(tokenSupply)
\* satisfies s <= availableBalance.
C1_GateProceedsIffWithinBalance ==
    (publicKey # <<>> /\ verifiedBankAccount # <<>>) =>
        LET s == ParseFloat(form.tokenSupply)
            b == verifiedBankAccount[1].availableBalance
            within == s # NaN /\ s <= b
        IN  /\ validateStep(3).isValid <=> within
            /\ SubmitOutcome = "mint" <=> within
            /\ ~CreateTokenDisabled <=> within

\* C3: verifiedBankAccount changes from null to a snapshot only through a
\* successful /api/plaid/exchange-token response.
C3_VerifiedOnlyByExchange ==
    [][(verifiedBankAccount = <<>> /\ verifiedBankAccount' # <<>>)
          => plaid.via = "exchange-token"]_vars

\* C4: when the wizard leaves step 3 with a verified snapshot whose available
\* balance the requested supply exceeds, the next step is step 2 and the
\* requested supply is unchanged.
C4_ExceedingSupplyRoutesToStep2 ==
    [][(/\ currentStep = 3
        /\ currentStep' # 3
        /\ verifiedBankAccount' # <<>>
        /\ ParseFloat(form.tokenSupply) # NaN
        /\ ParseFloat(form.tokenSupply) > verifiedBankAccount'[1].availableBalance)
          => (currentStep' = 2 /\ form'.tokenSupply = form.tokenSupply)]_vars

\* C5: a submit with a requested supply greater than the verified available
\* balance sets step 2, does not start createSPLToken (nothing is built,
\* signed or sent, the overlay stays off) and sends no record-mint request.
C5_RejectedSubmitMintsNothing ==
    [][(/\ OnSubmit
        /\ verifiedBankAccount # <<>>
        /\ ParseFloat(form.tokenSupply) # NaN
        /\ ParseFloat(form.tokenSupply) > verifiedBankAccount[1].availableBalance)
          => (/\ currentStep' = 2
              /\ toast' = "Insufficient Bank Balance"
              /\ mint'.pc = "idle"
              /\ mint'.instructions = <<>>
              /\ mint'.signatures = <<>>
              /\ mint'.log = <<>>
              /\ mint'.recordMint = <<>>
              /\ ~isLoading'
              /\ ~tokenCreated'
              /\ form' = form)]_vars

\* a submit was rejected for its supply and the wizard is back on step 2
C5_Witness ==
    /\ toast = "Insufficient Bank Balance"
    /\ currentStep = 2
    /\ verifiedBankAccount # <<>>
    /\ ParseFloat(form.tokenSupply) > verifiedBankAccount[1].availableBalance
    /\ mint.pc = "idle"

\* C9: the built transaction holds, in this order, createAccount,
\* initializeMint (freeze authority = payer iff the flag is set),
\* createAssociatedTokenAccount for the recipient, mintTo that account, and
\* then setAuthority naming the recipient iff mintAuthority is "transfer" and
\* the resolved recipient is not the payer.
C9_InstructionOrder ==
    mint.pc \in {"blockhash", "sign", "send", "confirm", "record-mint",
                 "recorded", "not-recorded"} =>
        LET d == mint.data[1]
            payer == publicKey[1]
            recipient == IF d.recipientAddress \in {OtherAddress} THEN OtherAddress
                         ELSE payer
            transfer == d.mintAuthority = "transfer" /\ recipient # payer
            tx == mint.instructions
        IN  /\ Len(tx) = IF transfer THEN 5 ELSE 4
            /\ tx[1].op = "createAccount" /\ tx[1].newAccountPubkey = MintKey
            /\ tx[2].op = "initializeMint" /\ tx[2].mint = MintKey
            /\ tx[2].freezeAuthority = IF d.freezeAuthority THEN <<payer>> ELSE <<>>
            /\ tx[3].op = "createAssociatedTokenAccount" /\ tx[3].owner = recipient
            /\ tx[4].op = "mintTo" /\ tx[4].destination = tx[3].associatedToken
            /\ transfer => /\ tx[5].op = "setAuthority"
                           /\ tx[5].account = MintKey
                           /\ tx[5].newAuthority = recipient

\* a transaction with the authority transfer and one without, both built
C9_Witness ==
    /\ mint.pc = "blockhash"
    /\ Len(mint.instructions) = 5
    /\ mint.data[1].freezeAuthority
    /\ mint.instructions[5].newAuthority = OtherAddress

\* C10: sendRawTransaction is called only after, in this order, the blockhash
\* was attached, the mint key signed and the wallet signed; when the rent
\* query, the construction of the instructions, the blockhash request or the
\* wallet's signature fails, nothing was sent and the creation fails.
C10_SubmitAfterSigning ==
    [][/\ (mint'.pc = "send" /\ mint.pc # "send") =>
              /\ mint'.log = <<"rent", "instructions", "blockhash", "partialSign",
                               "walletSignature", "sendRawTransaction">>
              /\ mint'.recentBlockhash # ""
              /\ mint'.signatures = <<MintKey, publicKey[1]>>
              /\ mint'.feePayer = publicKey[1]
       /\ (mint.pc \in {"rent", "blockhash", "sign"} /\ mint'.pc # mint.pc) =>
              \/ /\ mint'.pc = "idle"
                 /\ \A i \in DOMAIN mint.log : mint.log[i] # "sendRawTransaction"
                 /\ toast' \in {FailureToast(m) : m \in MintErrorMessages}
                 /\ ~isLoading' /\ ~tokenCreated'
              \/ /\ mint.pc = "rent" /\ mint'.pc = "blockhash"
                 /\ \A i \in DOMAIN mint'.log : mint'.log[i] # "sendRawTransaction"
              \/ /\ mint.pc = "blockhash" /\ mint'.pc = "sign"
                 /\ \A i \in DOMAIN mint'.log : mint'.log[i] # "sendRawTransaction"
              \/ mint.pc = "sign" /\ mint'.pc = "send"]_vars

\* the transaction was sent with both signatures
C10_Witness ==
    /\ mint.pc = "send"
    /\ mint.signatures = <<MintKey, publicKey[1]>>


\* C11: when the confirmation of the sent transaction carries an on-chain
\* error (or cannot be had), createSPLToken throws: no record-mint request is
\* sent, the success screen is not shown, the overlay is cleared and the
\* failure is reported; a record-mint request and the success screen only
\* follow a confirmation without error.
C11_OnChainErrorFailsCreation ==
    [][/\ (mint.pc = "confirm" /\ mint'.pc # "confirm") =>
              \/ /\ mint'.pc = "record-mint"
                 /\ mint'.confirmation = "ok"
              \/ /\ mint'.pc = "idle"
                 /\ mint'.recordMint = <<>>
                 /\ ~tokenCreated'
                 /\ ~isLoading'
                 /\ toast' \in {FailureToast(OnChainErrorMessage),
                                FailureToast(NotConfirmedMessage)}
       /\ (mint'.recordMint # <<>> \/ tokenCreated') =>
              mint'.confirmation = "ok"]_vars

\* the creation was reported as failed for an on-chain error
C11_Witness ==
    /\ toast = FailureToast(OnChainErrorMessage)
    /\ mint.pc = "idle"
    /\ ~isLoading
    /\ ~tokenCreated

\* C12: once createSPLToken has returned, the outcome of the record-mint
\* request does not matter: the success screen is shown with the token
\* created, the overlay is cleared and no failure is raised.
C12_RecordMintFailureIsSuccess ==
    [][(mint.pc = "record-mint" /\ mint'.pc # "record-mint") =>
          /\ mint'.pc \in {"recorded", "not-recorded"}
          /\ tokenCreated'
          /\ ~isLoading'
          /\ toast' = ""
          /\ mint'.instructions = mint.instructions
          /\ mint'.confirmation = "ok"]_vars

\* the record-mint request failed and the success screen is shown
C12_Witness ==
    /\ mint.pc = "not-recorded"
    /\ tokenCreated
    /\ ~isLoading
    /\ toast = ""

\* C13: whatever the recipient address string, the recipient of the call is
\* the payer when the string is empty or unparsable and the string itself
\* when it parses, the token account of the transaction is that recipient's,
\* and only an address off the curve makes the derivation of the token
\* account fail.
C13_RecipientResolution ==
    [][LET d == mint'.data[1]
           payer == publicKey'[1]
           expected == IF d.recipientAddress \in {"", MalformedAddress}
                       THEN payer ELSE d.recipientAddress
       IN  /\ mint'.pc # "idle" =>
                /\ ResolveRecipient(d, payer) = expected
                /\ mint'.pc # "rent" =>
                      /\ mint'.instructions[3].owner = expected
                      /\ mint'.instructions[4].destination =
                            <<"ata", MintKey, expected>>
           /\ (mint.pc = "rent" /\ toast' = FailureToast(OffCurveErrorMessage))
                => mint.data[1].recipientAddress = OffCurveAddress]_vars

\* a transaction built for an unparsable recipient names the payer
C13_Witness ==
    /\ mint.pc = "blockhash"
    /\ mint.data[1].recipientAddress = MalformedAddress
    /\ mint.instructions[3].owner = publicKey[1]

\* C14: for every supply string validateTokenSupply accepts and every offered
\* precision, computing the amount of the mint-to instruction does not fail,
\* and the amount is parseFloat(tokenSupply) x 10^decimals.
C14_SupplyScalingNeverFails ==
    (/\ mint.pc # "idle"
     /\ validateTokenSupply(mint.data[1].tokenSupply) = ""
     /\ mint.data[1].tokenDecimals \in DecimalOptions) =>
        /\ ~InitialSupplyThrows(mint.data[1])
        /\ mint.pc # "rent" =>
              mint.instructions[4].amount =
                  [value |-> ParseFloat(mint.data[1].tokenSupply),
                   decimals |-> IntOfDigits(mint.data[1].tokenDecimals)]

\* C23: the requested supply changes only when the user edits the supply
\* field of step 2 or of step 5 or presses "Use Max", which sets it to
\* exactly the verified available balance; a step that changes it changes
\* nothing else of the wizard, so navigation, verification, fallback, forced
\* advance, failed validation, routing back to step 2 and submit leave it.
C23_SupplyChangesOnlyByUser ==
    [][/\ form'.tokenSupply # form.tokenSupply =>
            /\ \/ currentStep = 2
               \/ /\ currentStep = 5
                  /\ verifiedBankAccount # <<>>
                  /\ ParseFloat(form.tokenSupply) >
                        verifiedBankAccount[1].availableBalance
            /\ form' = [form EXCEPT !.tokenSupply = form'.tokenSupply]
            /\ UNCHANGED <<publicKey, currentStep, verifiedBankAccount, isLoading,
                           tokenCreated, plaid, mint>>
       /\ UseMax => ParseFloat(form'.tokenSupply) =
                        verifiedBankAccount[1].availableBalance]_vars

\* at step 5, after a verification and a submit that routed back, the supply
\* equals the verified balance and is no longer the default: Use Max was used
C23_Witness ==
    /\ currentStep = 5
    /\ verifiedBankAccount # <<>>
    /\ form.tokenSupply # DefaultSupply
    /\ form.tokenSupply \notin SupplyStrings
    /\ ParseFloat(form.tokenSupply) = verifiedBankAccount[1].availableBalance

\* C29: in every reachable state of the wizard currentStep is between 1 and
\* 5, and from step 4 on a verified bank snapshot is held.
C29_LateStepsAreVerified ==
    /\ currentStep \in 1..5
    /\ currentStep >= 4 => verifiedBankAccount # <<>>

\* the review step is reached while the snapshot held is the one of the
\* fallback method
C29_Witness ==
    /\ currentStep = 5
    /\ verifiedBankAccount = <<FallbackBankAccount>>
    /\ ~tokenCreated

\* C26: for every supply string that validateTokenSupply accepts, the number
\* the validation accepted is the number the supply gate compared with the
\* balance and the number createSPLToken mints and record-mint records.
C26_SupplyReadingsAgree ==
    (/\ mint.pc # "idle"
     /\ validateTokenSupply(mint.data[1].tokenSupply) = "") =>
        LET accepted == ToNumber(RemoveCommas(mint.data[1].tokenSupply))
            gated == ParseFloat(mint.data[1].tokenSupply)
        IN  /\ accepted = gated
            /\ Len(mint.instructions) >= 4 =>
                  mint.instructions[4].amount.value = accepted

\* ------------------------------------------------------------------------
\* Wallet session: SolanaWalletProvider
\* ------------------------------------------------------------------------
\* keys Phantom can hold
WalletKeys == {PayerAddress, OtherAddress}

WalletNotFoundMessage ==
    "Phantom wallet not found! Please install the Phantom browser extension."
UserRejectedMessage == "User rejected the request."
ConnectFailedMessage == "Failed to connect to wallet"

\* what a "connect" event can carry: nothing, a key, or something that
\* new PublicKey() rejects
ConnectEventArgs == {<<>>, <<MalformedAddress>>} \cup {<<k>> : k \in WalletKeys}

\* how wallet.connect() can end: a response with publicKey, a response
\* without it while wallet.publicKey is set, a response without it and no
\* wallet.publicKey, a rejection with a message, a rejection without one
ConnectOutcomes == {"key", "wallet-key", "nothing", "rejected", "rejected-bare"}

\* the provider after its mount effect: Phantom is installed or not, and when
\* it is, it may be connected already
InitWallet ==
    /\ currentStep = 1
    /\ verifiedBankAccount = <<>>
    /\ form = [ tokenName |-> "", tokenSymbol |-> "", tokenSupply |-> DefaultSupply,
                tokenDecimals |-> <<"6">>, mintAuthority |-> "keep",
                recipientAddress |-> "", freezeAuthority |-> FALSE ]
    /\ isLoading = FALSE
    /\ tokenCreated = FALSE
    /\ toast = ""
    /\ plaid = PlaidUnmounted
    /\ mint = MintIdle
    /\ ServerIdle
    /\ wallet \in {<<>>, <<"phantom">>}
    /\ phantom \in {PhantomIdle}
          \cup {[PhantomIdle EXCEPT !.publicKey = <<k>>, !.isConnected = TRUE] :
                  k \in {key \in WalletKeys : wallet # <<>>}}
    /\ publicKey = IF phantom.isConnected THEN phantom.publicKey ELSE <<>>
    /\ connected = phantom.isConnected
    /\ connecting = FALSE
    /\ connectionError = ""
    /\ lastWalletOp = NoWalletOp

WalletFrame == UNCHANGED <<currentStep, verifiedBankAccount, form, isLoading,
                           tokenCreated, plaid, mint, serverVars, wallet>>

\* connect() up to its return or to its await of wallet.connect()
Connect ==
    /\ ~phantom.connectPending
    /\ IF wallet = <<>>
       THEN /\ connectionError' = WalletNotFoundMessage
            /\ toast' = "Wallet Error"
            /\ lastWalletOp' = [op |-> "connect()", key |-> <<>>, ok |-> FALSE]
            /\ UNCHANGED <<publicKey, connected, connecting, phantom>>
       ELSE IF phantom.publicKey # <<>>
       THEN /\ publicKey' = phantom.publicKey
            /\ connected' = TRUE
            /\ connecting' = FALSE
            /\ connectionError' = ""
            /\ toast' = ""
            /\ lastWalletOp' = [op |-> "connect()", key |-> phantom.publicKey,
                                ok |-> TRUE]
            /\ UNCHANGED phantom
       ELSE /\ connecting' = TRUE
            /\ connectionError' = ""
            /\ toast' = ""
            /\ phantom' = [phantom EXCEPT !.connectPending = TRUE]
            /\ UNCHANGED <<publicKey, connected, lastWalletOp>>
    /\ WalletFrame

\* wallet.connect() resolves or rejects; connect() runs to its end
WalletConnectReturns(outcome, k) ==
    /\ phantom.connectPending
    /\ connecting' = FALSE
    /\ CASE outcome \in {"key", "wallet-key"} ->
              /\ phantom' = [phantom EXCEPT !.publicKey = <<k>>, !.isConnected = TRUE,
                                            !.connectPending = FALSE]
              /\ publicKey' = <<k>>
              /\ connected' = TRUE
              /\ toast' = ""
              /\ lastWalletOp' = [op |-> "connect()", key |-> <<k>>, ok |-> TRUE]
              /\ UNCHANGED connectionError
         [] outcome = "nothing" ->
              /\ k = PayerAddress
              /\ phantom' = [phantom EXCEPT !.connectPending = FALSE]
              /\ toast' = ""
              /\ lastWalletOp' = [op |-> "connect()", key |-> <<>>, ok |-> TRUE]
              /\ UNCHANGED <<publicKey, connected, connectionError>>
         [] outcome \in {"rejected", "rejected-bare"} ->
              /\ k = PayerAddress
              /\ phantom' = [phantom EXCEPT !.connectPending = FALSE]
              /\ connectionError' = IF outcome = "rejected" THEN UserRejectedMessage
                                    ELSE ConnectFailedMessage
              /\ toast' = "Connection Failed"
              /\ lastWalletOp' = [op |-> "connect()", key |-> <<>>, ok |-> FALSE]
              /\ UNCHANGED <<publicKey, connected>>
    /\ WalletFrame

\* variant: a "connect" event marks the provider connected and ignores the key
PhantomConnectEventIgnoresKey(args) ==
    /\ wallet # <<>>
    /\ toast' = ""
    /\ connected' = TRUE
    /\ connecting' = FALSE
    /\ lastWalletOp' = [op |-> "connect event", key |-> args,
                        ok |-> args = <<>> \/ args[1] \in PublicKeyStrings]
    /\ phantom' = IF args # <<>> /\ args[1] \in PublicKeyStrings
                  THEN [phantom EXCEPT !.publicKey = args, !.isConnected = TRUE]
                  ELSE phantom
    /\ UNCHANGED <<publicKey, connectionError>>
    /\ WalletFrame

\* the handler of Phantom's "connect" event
PhantomConnectEvent(args) ==
    /\ wallet # <<>>
    /\ toast' = ""
    /\ IF args = <<>>
       THEN /\ connected' = TRUE
            /\ connecting' = FALSE
            /\ lastWalletOp' = [op |-> "connect event", key |-> <<>>, ok |-> TRUE]
            /\ UNCHANGED <<publicKey, connectionError, phantom>>
       ELSE IF args[1] \in PublicKeyStrings
       THEN /\ publicKey' = args
            /\ connected' = TRUE
            /\ connecting' = FALSE
            /\ connectionError' = ""
            /\ phantom' = [phantom EXCEPT !.publicKey = args, !.isConnected = TRUE]
            /\ lastWalletOp' = [op |-> "connect event", key |-> args, ok |-> TRUE]
       ELSE /\ connectionError' = ConnectFailedMessage
            /\ connecting' = FALSE
            /\ lastWalletOp' = [op |-> "connect event", key |-> args, ok |-> FALSE]
            /\ UNCHANGED <<publicKey, connected, phantom>>
    /\ WalletFrame

\* disconnect() up to its await of wallet.disconnect(); without a wallet it
\* returns at once
Disconnect ==
    /\ ~phantom.disconnectPending
    /\ toast' = ""
    /\ IF wallet = <<>>
       THEN /\ lastWalletOp' = [op |-> "disconnect()", key |-> <<>>, ok |-> TRUE]
            /\ UNCHANGED phantom
       ELSE /\ phantom' = [phantom EXCEPT !.disconnectPending = TRUE]
            /\ UNCHANGED lastWalletOp
    /\ UNCHANGED <<publicKey, connected, connecting, connectionError>>
    /\ WalletFrame

\* wallet.disconnect() resolves or rejects; disconnect() runs to its end
WalletDisconnectReturns(ok) ==
    /\ phantom.disconnectPending
    /\ toast' = ""
    /\ lastWalletOp' = [op |-> "disconnect()", key |-> <<>>, ok |-> ok]
    /\ IF ok
       THEN /\ phantom' = [phantom EXCEPT !.publicKey = <<>>, !.isConnected = FALSE,
                                          !.disconnectPending = FALSE]
            /\ publicKey' = <<>>
            /\ connected' = FALSE
       ELSE /\ phantom' = [phantom EXCEPT !.disconnectPending = FALSE]
            /\ UNCHANGED <<publicKey, connected>>
    /\ UNCHANGED <<connecting, connectionError>>
    /\ WalletFrame

\* the handler of Phantom's "disconnect" event
PhantomDisconnectEvent ==
    /\ wallet # <<>>
    /\ toast' = ""
    /\ publicKey' = <<>>
    /\ connected' = FALSE
    /\ phantom' = [phantom EXCEPT !.publicKey = <<>>, !.isConnected = FALSE]
    /\ lastWalletOp' = [op |-> "disconnect event", key |-> <<>>, ok |-> TRUE]
    /\ UNCHANGED <<connecting, connectionError>>
    /\ WalletFrame

NextWallet ==
    \/ Connect
    \/ \E outcome \in ConnectOutcomes, k \in WalletKeys :
            WalletConnectReturns(outcome, k)
    \/ \E args \in ConnectEventArgs : PhantomConnectEvent(args)
    \/ Disconnect
    \/ \E ok \in BOOLEAN : WalletDisconnectReturns(ok)
    \/ PhantomDisconnectEvent

SpecWallet == InitWallet /\ [][NextWallet]_vars

\* ------------------------------------------------------------------------
\* Properties of the wallet session (SpecWallet)
\* ------------------------------------------------------------------------
\* C22: after a successful connect() or a "connect" event carrying a key,
\* publicKey is that key and connected is true; after disconnect() has
\* completed or a "disconnect" event, publicKey is null and connected false.
C22_SessionFollowsWallet ==
    /\ (/\ lastWalletOp.op \in {"connect()", "connect event"}
        /\ lastWalletOp.ok
        /\ lastWalletOp.key # <<>>)
          => publicKey = lastWalletOp.key /\ connected
    /\ (/\ lastWalletOp.op \in {"disconnect()", "disconnect event"}
        /\ lastWalletOp.ok)
          => publicKey = <<>> /\ ~connected

\* a "connect" event carrying a key has set publicKey while a disconnect()
\* call awaits the wallet
C22_Witness ==
    /\ lastWalletOp = [op |-> "connect event", key |-> <<OtherAddress>>, ok |-> TRUE]
    /\ publicKey = <<OtherAddress>>
    /\ connected
    /\ phantom.disconnectPending

\* C28: in every reachable state of the provider, connected is true only if
\* publicKey is not null.
C28_ConnectedHasKey == connected => publicKey # <<>>

\* ------------------------------------------------------------------------
\* Properties of the server (SpecServer)
\* ------------------------------------------------------------------------
\* the row holds the values the exchange-token call r obtained from Plaid
CarriesValuesOf(row, r) ==
    LET a == r.answer[1]
        current == IF a.current = Absent \/ a.current = 0 THEN DbNull ELSE a.current
        available == IF a.available = Absent \/ a.available = 0 THEN current
                     ELSE a.available
    IN  /\ row.wallet_address = r.body.walletAddress
        /\ row.item_id = a.item
        /\ row.access_token = <<"access", a.item>>
        /\ row.institution_name = a.institution
        /\ row.current_balance = current
        /\ row.available_balance = available

\* exchange-token calls i and j for one wallet, both answered with success,
\* i answered before j arrived, and no other exchange-token call for the wallet
SequentialLinks(i, j) ==
    /\ i # j
    /\ requests[i].kind = "exchange-token" /\ requests[j].kind = "exchange-token"
    /\ requests[i].body.walletAddress = requests[j].body.walletAddress
    /\ requests[i].pc = "done" /\ requests[i].status = 200
    /\ requests[j].pc = "done" /\ requests[j].status = 200
    /\ i \in requests[j].after
    /\ \A k \in DOMAIN requests \ {i, j} :
          ~(/\ requests[k].kind = "exchange-token"
            /\ requests[k].body.walletAddress = requests[i].body.walletAddress)

RowsOf(walletAddress) == {row \in plaidItems : row.wallet_address = walletAddress}

\* C2: every minting record is inserted with amount_minted <= the
\* available_balance that the plaid_items row it references holds at that
\* moment (a row without a balance bounds nothing).
C2_MintWithinLinkedBalance ==
    [][\A m \in stablecoinMints' \ stablecoinMints :
          \E row \in plaidItems :
              /\ row.id = m.plaid_item_id
              /\ row.available_balance # DbNull
                    => m.amount_minted <= row.available_balance]_vars

\* C6: plaid_items holds at most one row per wallet address, whatever the
\* interleaving of the exchange-token requests.
C6_OneRowPerWallet ==
    \A a \in plaidItems, b \in plaidItems :
        a.wallet_address = b.wallet_address => a = b

\* the row holds the link (item, access token, institution) of call r
CarriesLinkOf(row, r) ==
    /\ row.wallet_address = r.body.walletAddress
    /\ row.item_id = r.answer[1].item
    /\ row.access_token = <<"access", r.answer[1].item>>
    /\ row.institution_name = r.answer[1].institution

\* some account-info call has written fresh balances into the wallet's row
BalancesRefreshed(walletAddress) ==
    \E k \in DOMAIN requests :
        /\ requests[k].kind = "account-info"
        /\ requests[k].body.walletAddress = walletAddress
        /\ requests[k].stored

\* two exchange-token calls of one wallet both found no row, and both returned
C6_Witness ==
    \E i \in DOMAIN requests, j \in DOMAIN requests :
        /\ i # j
        /\ requests[i].kind = "exchange-token" /\ requests[j].kind = "exchange-token"
        /\ requests[i].body.walletAddress = requests[j].body.walletAddress
        /\ requests[i].selected = << <<>> >> /\ requests[j].selected = << <<>> >>
        /\ requests[i].pc = "done" /\ requests[j].pc = "done"
        /\ requests[i].answer[1].item # requests[j].answer[1].item
        /\ Cardinality(RowsOf(requests[i].body.walletAddress)) = 1

C8_SuccessMeansRowWritten ==
    [][\A r \in DOMAIN requests :
          (/\ requests[r].kind = "exchange-token"
           /\ requests[r].pc # "done"
           /\ requests'[r].pc = "done"
           /\ requests'[r].status = 200)
             => \E row \in plaidItems' : CarriesValuesOf(row, requests'[r])]_vars

\* C8 as the code has it: a success answer after a stored write finds the row
\* with the call's values in the table; a success answer after a database
\* error leaves the table as it was.
C8_StoredMeansRowWritten ==
    [][\A r \in DOMAIN requests :
          (/\ requests[r].kind = "exchange-token"
           /\ requests[r].pc # "done"
           /\ requests'[r].pc = "done"
           /\ requests'[r].status = 200)
             => IF requests'[r].stored
                THEN \E row \in plaidItems' : CarriesValuesOf(row, requests'[r])
                ELSE plaidItems' = plaidItems]_vars

\* one call answered success after a stored write, another after a failed one
C8_Witness ==
    \E i \in DOMAIN requests, j \in DOMAIN requests :
        /\ requests[i].kind = "exchange-token" /\ requests[j].kind = "exchange-token"
        /\ requests[i].status = 200 /\ requests[i].stored
        /\ requests[j].status = 200 /\ ~requests[j].stored
        /\ \E row \in plaidItems : CarriesValuesOf(row, requests[i])

\* an account-info call is answered while the wallet has no row in plaid_items
AnsweredWithoutRow(r) ==
    /\ requests[r].kind = "account-info"
    /\ BodyIsValid("account-info", requests[r].body)
    /\ requests[r].pc # "done"
    /\ requests'[r].pc = "done"
    /\ RowsOf(requests[r].body.walletAddress) = {}

\* C15: an account-info request for a wallet that has no row in plaid_items
\* answers 404, never 500, calls Plaid not once and changes no row.
C15_NoLinkIs404 ==
    [][\A r \in DOMAIN requests :
          AnsweredWithoutRow(r) =>
              /\ requests'[r].status = 404
              /\ requests'[r].plaidCalls = 0
              /\ plaidItems' = plaidItems
              /\ stablecoinMints' = stablecoinMints]_vars

\* C15 as the code has it: 404 when the select found no row, 500 when the
\* select itself threw; in both cases no Plaid call and no row changed.
C15_NoLinkIs404UnlessSelectFails ==
    [][\A r \in DOMAIN requests :
          AnsweredWithoutRow(r) =>
              /\ requests'[r].status = IF requests'[r].dbFailed THEN 500 ELSE 404
              /\ requests'[r].response =
                    IF requests'[r].dbFailed
                    THEN <<[error |-> "Failed to get account information"]>>
                    ELSE <<[error |-> "No linked bank account found"]>>
              /\ requests'[r].plaidCalls = 0
              /\ plaidItems' = plaidItems
              /\ stablecoinMints' = stablecoinMints]_vars

\* a wallet without a row was answered 404 once and 500 once, while another
\* wallet has a row
C15_Witness ==
    \E i \in DOMAIN requests, j \in DOMAIN requests :
        /\ requests[i].kind = "account-info" /\ requests[j].kind = "account-info"
        /\ requests[i].body.walletAddress = requests[j].body.walletAddress
        /\ RowsOf(requests[i].body.walletAddress) = {}
        /\ plaidItems # {}
        /\ requests[i].status = 404 /\ ~requests[i].dbFailed
        /\ requests[j].status = 500 /\ requests[j].dbFailed
        /\ requests[i].plaidCalls = 0 /\ requests[j].plaidCalls = 0

\* C16: when accountsBalanceGet answered and the update of the balances in
\* plaid_items throws, getBankAccountInfo still returns the snapshot with the
\* balances Plaid sent, and account-info answers 200 with success true.
C16_RefreshFailureStillAnswers ==
    [][\A r \in DOMAIN requests :
          (/\ requests[r].kind = "account-info"
           /\ requests[r].pc = "write"
           /\ requests'[r].pc = "done"
           /\ requests'[r].dbFailed)
             => LET live == requests[r].answer[1]
                    item == requests[r].selected[1][1]
                    sent == requests'[r].response[1]
                IN  /\ requests'[r].status = 200
                    /\ sent.success
                    /\ sent.bankAccount.institutionName = item.institution_name
                    /\ sent.bankAccount.currentBalance = live.current
                    /\ sent.bankAccount.availableBalance =
                          (IF live.available \in {Absent, 0, NaN}
                           THEN live.current ELSE live.available)
                    /\ plaidItems' = plaidItems]_vars

\* an account-info call answered 200 with the live balance of 70 after its
\* update failed, and the wallet's row still holds another balance
C16_Witness ==
    \E r \in DOMAIN requests :
        /\ requests[r].kind = "account-info"
        /\ requests[r].pc = "done" /\ requests[r].status = 200
        /\ requests[r].dbFailed /\ ~requests[r].stored
        /\ requests[r].plaidCalls = 1
        /\ requests[r].response[1].bankAccount.currentBalance = 70 * Scale
        /\ \E row \in RowsOf(requests[r].body.walletAddress) :
              row.current_balance # 70 * Scale

\* C17: a record-mint request for a wallet without a row in plaid_items
\* answers 500 and inserts nothing, and every row of stablecoin_mints
\* references a row of plaid_items that exists and has the same wallet address.
C17_MintReferencesLink ==
    /\ [](\A m \in stablecoinMints :
            \E row \in plaidItems :
                /\ row.id = m.plaid_item_id
                /\ row.wallet_address = m.wallet_address)
    /\ [][\A r \in DOMAIN requests :
            (/\ requests[r].kind = "record-mint"
             /\ BodyIsValid("record-mint", requests[r].body)
             /\ requests[r].pc # "done"
             /\ requests'[r].pc = "done"
             /\ RowsOf(requests[r].body.walletAddress) = {})
               => /\ requests'[r].status = 500
                  /\ stablecoinMints' = stablecoinMints]_vars

\* a record-mint of a wallet without a row was answered 500 by a working
\* database, while the record-mint of a linked wallet was stored
C17_Witness ==
    \E r \in DOMAIN requests :
        /\ requests[r].kind = "record-mint"
        /\ BodyIsValid("record-mint", requests[r].body)
        /\ requests[r].pc = "done" /\ requests[r].status = 500
        /\ ~requests[r].dbFailed
        /\ RowsOf(requests[r].body.walletAddress) = {}
        /\ \E m \in stablecoinMints :
              m.wallet_address # requests[r].body.walletAddress

\* the mint-history answer of h holds the record that record-mint call r sent
HistoryReproduces(h, r) ==
    \E k \in DOMAIN requests[h].response[1].history :
        LET rec == requests[h].response[1].history[k]
            sent == requests[r].body
        IN  /\ rec.status = "completed"
            /\ rec.wallet_address = sent.walletAddress
            /\ rec.token_address = sent.tokenAddress
            /\ ParseFloat(rec.amount_minted) = sent.amount
            /\ rec.transaction_id = <<sent.transactionId>>

\* C18: after a record-mint request answered with success, a mint-history
\* request for that wallet returns a record with status "completed" whose
\* wallet address, token address, amount and transaction id are those sent.
C18_HistoryRoundTrip ==
    \A h \in DOMAIN requests, r \in DOMAIN requests :
        (/\ requests[h].kind = "mint-history"
         /\ requests[h].pc = "done" /\ requests[h].status = 200
         /\ requests[r].kind = "record-mint"
         /\ requests[r].status = 200
         /\ r \in requests[h].after
         /\ requests[r].body.walletAddress = requests[h].body.walletAddress)
            => HistoryReproduces(h, r)

\* the body of request r fails the schema of its endpoint
FailsValidation(r) ==
    \/ Len(requests[r].body.walletAddress) < 32
    \/ Len(requests[r].body.walletAddress) > 44
    \/ /\ requests[r].kind = "exchange-token"
       /\ requests[r].body.publicToken = <<>>
    \/ /\ requests[r].kind = "record-mint"
       /\ \/ requests[r].body.amount <= 0
          \/ Len(requests[r].body.tokenAddress) < 32
          \/ Len(requests[r].body.tokenAddress) > 44

\* C19: on each of the five POST endpoints a request whose body fails
\* validation (walletAddress not of 32 to 44 characters, amount not positive,
\* publicToken missing) is answered 400 and its handler does not run: no
\* Plaid call, no row read, no row written; no other request is answered 400.
C19_InvalidBodyIs400 ==
    \A r \in DOMAIN requests :
        /\ requests[r].kind \in {"create-link-token", "exchange-token",
                                 "account-info", "record-mint", "mint-history"}
        /\ FailsValidation(r) <=> requests[r].status = 400
        /\ FailsValidation(r) =>
              /\ requests[r].pc = "done"
              /\ requests[r].response = <<[error |-> "Invalid request body"]>>
              /\ requests[r].plaidCalls = 0
              /\ requests[r].answer = <<>>
              /\ requests[r].selected = <<>>
              /\ ~requests[r].stored
              /\ ~requests[r].dbFailed

\* three requests were answered 400: a malformed wallet address, a missing
\* publicToken and an amount of 0; the tables are empty
C19_Witness ==
    /\ plaidItems = {} /\ stablecoinMints = {}
    /\ \E i \in DOMAIN requests, j \in DOMAIN requests, k \in DOMAIN requests :
          /\ requests[i].status = 400 /\ requests[j].status = 400
          /\ requests[k].status = 400
          /\ ~IsWalletAddress(requests[i].body.walletAddress)
          /\ requests[j].kind = "exchange-token"
          /\ requests[j].body.publicToken = <<>>
          /\ requests[k].kind = "record-mint" /\ requests[k].body.amount = 0

\* C20: with PLAID_CLIENT_ID or PLAID_SECRET missing, a valid
\* create-link-token request is answered 500 with the configuration message
\* and without a call to Plaid; every other 500 answer of the endpoint
\* follows two failed calls to Plaid and carries another message.
C20_ConfigurationErrorIsDistinct ==
    \A r \in DOMAIN requests :
        (/\ requests[r].kind = "create-link-token"
         /\ Len(requests[r].body.walletAddress) \in 32..44)
           => /\ ~requests[r].credentials =>
                    /\ requests[r].pc = "done"
                    /\ requests[r].status = 500
                    /\ requests[r].response =
                          <<[error |->
                              "PLAID_ERROR: Banking service configuration is missing"]>>
                    /\ requests[r].plaidCalls = 0
              /\ (requests[r].credentials /\ requests[r].status = 500) =>
                    /\ requests[r].plaidCalls = 2
                    /\ requests[r].response[1].error #
                          "PLAID_ERROR: Banking service configuration is missing"

\* one request was answered with the configuration error, and each upstream
\* failure message has been sent to some other request
C20_Witness ==
    \E i \in DOMAIN requests, j \in DOMAIN requests, k \in DOMAIN requests :
        /\ requests[i].kind = "create-link-token"
        /\ ~requests[i].credentials /\ requests[i].status = 500
        /\ requests[i].plaidCalls = 0
        /\ requests[j].kind = "create-link-token" /\ requests[j].credentials
        /\ requests[j].status = 500
        /\ requests[j].response[1].error = PlaidApiErrorMessage
        /\ requests[k].kind = "create-link-token" /\ requests[k].credentials
        /\ requests[k].status = 500
        /\ requests[k].response[1].error = DefaultLinkTokenErrorMessage

\* C25: handling one create-link-token request calls linkTokenCreate at most
\* once; a failed call is not repeated by the server.
C25_LinkTokenCreatedAtMostOnce ==
    \A r \in DOMAIN requests :
        requests[r].kind = "create-link-token" => requests[r].plaidCalls <= 1

\* C27: for every pair (available, current) that Plaid answers, each possibly
\* absent or zero, the availableBalance that exchange-token returns equals
\* the available_balance the same call stores in the wallet's row, and
\* equals what getBankAccountInfo returns for these balances
\* (available || current).
C27_ReturnedEqualsPersisted ==
    [][\A r \in DOMAIN requests :
          (/\ requests[r].kind = "exchange-token"
           /\ requests[r].pc = "write"
           /\ requests'[r].pc = "done"
           /\ requests'[r].stored)
             => LET sent == requests'[r].response[1].bankAccount[1].availableBalance
                    live == requests[r].answer[1]
                IN  /\ \E row \in plaidItems' :
                          /\ row.wallet_address = requests[r].body.walletAddress
                          /\ row.available_balance = sent
                    /\ sent = AccountInfoResponse(
                                  CHOOSE row \in plaidItems' :
                                      row.wallet_address = requests[r].body.walletAddress,
                                  live).bankAccount.availableBalance]_vars

\* C30: a step of an exchange-token, account-info or record-mint request for
\* wallet W leaves the plaid_items row and the stablecoin_mints rows of every
\* other wallet as they were, whatever requests of other wallets are under way.
C30_OtherWalletsUntouched ==
    [][\A r \in DOMAIN requests' :
          (/\ requests'[r].kind \in {"exchange-token", "account-info", "record-mint"}
           /\ (r \in DOMAIN requests => requests'[r] # requests[r]))
             => /\ {row \in plaidItems' :
                        row.wallet_address # requests'[r].body.walletAddress}
                      = {row \in plaidItems :
                            row.wallet_address # requests'[r].body.walletAddress}
                /\ {m \in stablecoinMints' :
                        m.wallet_address # requests'[r].body.walletAddress}
                      = {m \in stablecoinMints :
                            m.wallet_address # requests'[r].body.walletAddress}]_vars

\* two wallets are linked, one of them has had its balances refreshed by
\* account-info or has a minting record
C30_Witness ==
    \E a \in plaidItems, b \in plaidItems :
        /\ a.wallet_address # b.wallet_address
        /\ \E r \in DOMAIN requests :
              /\ requests[r].kind \in {"account-info", "record-mint"}
              /\ requests[r].body.walletAddress = a.wallet_address
              /\ requests[r].stored

\* exchange-token calls i and j overlapped: neither was answered before the
\* other arrived
Concurrent(i, j) ==
    /\ i # j
    /\ i \notin requests[j].after
    /\ j \notin requests[i].after

\* C24: when two exchange-token requests for one wallet run concurrently,
\* each write that reaches the database leaves the wallet's row holding the
\* writer's values, so that the row finally holds the values written last,
\* for every interleaving, also when no row existed before.
C24_LastWriteWins ==
    [][\A r \in DOMAIN requests, j \in DOMAIN requests :
          (/\ requests[r].kind = "exchange-token"
           /\ requests[j].kind = "exchange-token"
           /\ requests[j].body.walletAddress = requests[r].body.walletAddress
           /\ Concurrent(r, j)
           /\ requests[r].pc = "write"
           /\ requests'[r].pc = "done"
           /\ requests'[r].stored \/ requests'[r].conflict)
             => \E row \in plaidItems' : CarriesValuesOf(row, requests'[r])]_vars

\* C21: every request to the five POST endpoints ends with exactly one
\* response, of status 200, 400, 404 or 500, whatever the Plaid client or the
\* database throws at any step: a request is finished exactly when it has
\* its one response, and an answered request is never answered again.
C21_OneResponsePerRequest ==
    /\ [](\A r \in DOMAIN requests :
            /\ requests[r].status \in {0, 200, 400, 404, 500}
            /\ requests[r].pc = "done" <=> requests[r].status # 0
            /\ Len(requests[r].response) = (IF requests[r].pc = "done" THEN 1 ELSE 0))
    /\ [][\A r \in DOMAIN requests :
            requests[r].pc = "done" => requests'[r] = requests[r]]_vars

\* three requests have ended, with 200, with 404, and with 500 after a
\* database error
C21_Witness ==
    \E i \in DOMAIN requests, j \in DOMAIN requests, k \in DOMAIN requests :
        /\ requests[i].pc = "done" /\ requests[i].status = 200
        /\ requests[j].pc = "done" /\ requests[j].status = 404
        /\ requests[k].pc = "done" /\ requests[k].status = 500
        /\ requests[k].dbFailed

====
